---- MODULE Spec2Model ----
(***************************************************************************)
(* Model of the cpp_network_engine framing library: the server registry    *)
(* (net_server), its per-client connections (tcp_connection), the client   *)
(* endpoint (net_client) and the byte streams between them.                *)
(*                                                                         *)
(* The server runs every handler on one io_context (io_context.run() in    *)
(* main), and the applications call send_to / send_to_all /                *)
(* send_to_all_except only from inside the accept and read callbacks, so   *)
(* the position of the server's single thread is the variable ctx: either  *)
(* idle in the event loop or inside one application callback.              *)
(***************************************************************************)
EXTENDS Integers, Sequences, FiniteSets, TLC

\* ---------------------------------------------------------------- bounds
MaxConn == 2        \* connections accepted over the run
MaxLen == 1         \* longest body the applications send
MaxEvents == 2      \* send calls (server and clients) and lost connections over the run
MaxDeliv == 2       \* message callbacks after which failing reads are followed no further

Ids == 0 .. (MaxConn - 1)
\* the ids an application may name: the assignable ones and one never assigned
ArgIds == 0 .. MaxConn
\* the byte values of application bodies; 0 stands for the server's welcome text
Bytes == 1 .. MaxEvents

VARIABLES
  next_id_,          \* net_server::next_id_
  connections_,      \* net_server::connections_, as the list of the ids of its objects
  accept_pending,    \* an async_accept is outstanding
  obj,               \* lifetime of each tcp_connection object
  write_messages_,   \* tcp_connection::write_messages_
  wr,                \* tcp_connection: an async_write is outstanding
  rd,                \* tcp_connection: which async_read is outstanding
  read_message_,     \* tcp_connection::read_message_
  ctx,               \* where the server's thread is
  last,              \* the latest send_* call and the queues it found
  sock,              \* state of each TCP connection
  s2c, c2s,          \* bytes in flight, server to client and client to server
  c_alive,           \* the client process is running
  c_write_messages_, \* net_client::write_messages_
  c_wr,              \* net_client: an async_write is outstanding
  c_rd,              \* net_client: which async_read is outstanding
  c_read_message_,   \* net_client::read_message_
  assigned,          \* history: the ids handed out, in order
  enq, wrote, deliv, \* history, server to client: enqueued, written, dispatched
  c_enq, c_wrote, s_deliv, \* history, client to server
  ncb,               \* history: accept_handler_ invocations per id
  rd_failed,         \* history: how the first failed read of each connection ended
  c_rd_failed,       \* history: the same for the reads of each client
  nsend,             \* send_* calls made so far
  nfault,            \* connections failed so far other than by a close
  nm,                \* a net_message object, byte by byte
  nm_op,             \* the operation last applied to nm, and what it was given
  nm2,               \* a second net_message object, made from nm by copy or assignment
  connections_mutex_, \* net_server::connections_mutex_: the thread that holds it, 0 for none
  thr,               \* where each thread that runs io_context.run() is
  c_inflight,        \* net_client: the async_write operations outstanding on socket_
  app_thread,        \* the client's application thread, inside net_client::send or not
  io_thread,         \* the client's I/O thread, inside a write completion handler or not
  port_arg,          \* the port given to net_server's constructor, 0 before it has run
  listen_port,       \* the port acceptor_ listens on, 0 while there is no acceptor
  c_failed,          \* the net_client objects whose constructor threw
  objects,           \* the net_message objects made so far, by address: alive or not, contents
  caller_buf,        \* the buffer the application passes to send_to_all
  bcast,             \* where the send_to_all call under way stands
  queue_,            \* per connection, the addresses of the elements of write_messages_
  wire,              \* per connection, the frames its writes have put on the wire
  sent,              \* per connection, the bodies send was called with
  wr_failed,         \* per server connection, the frames whose write ended with an error
  do_writes,         \* per server connection, the do_write() calls made
  accept_failed,     \* the async_accept operations that have ended with an error
  clients_,          \* chat_server::clients_, each client with its id_ and name
  chat_next,         \* the id net_server gives the chat server's next connection
  chat_out,          \* the frames the chat server's running handler has sent
  players_,          \* connect4_server::players_, each player with its id_ and in_game
  games_,            \* connect4_server::games_, each game as the ids of its players[0], players[1]
  c4_next,           \* the id net_server gives the connect-4 server's next connection
  c4_call,           \* the last call of connect4_server::handle_accept
  c4_out,            \* the frames that call has sent
  c4_process         \* whether the connect-4 server runs, and what fault it has had

srv_vars == <<next_id_, connections_, accept_pending, obj, write_messages_, wr, rd,
              read_message_, ctx, last>>
net_vars == <<sock, s2c, c2s>>
cli_vars == <<c_alive, c_write_messages_, c_wr, c_rd, c_read_message_>>
hist_vars == <<assigned, enq, wrote, deliv, c_enq, c_wrote, s_deliv, ncb, rd_failed,
               c_rd_failed, nsend, nfault>>
\* the state of the server, the clients and the streams between them
main_vars == <<srv_vars, net_vars, cli_vars, hist_vars>>
\* the net_message object looked at by itself
codec_vars == <<nm, nm_op, nm2>>
\* the server's handlers spread over several threads
mt_vars == <<connections_mutex_, thr>>
\* the client with its application thread beside its I/O thread
ct_vars == <<c_inflight, app_thread, io_thread>>
\* the ports, and the clients that could not connect
port_vars == <<port_arg, listen_port, c_failed>>
\* net_message objects by address: those a broadcast makes and queues
copy_vars == <<objects, caller_buf, bcast, queue_, wire, sent>>
\* what the specifications of single parts leave alone
\* what only the specifications of accept errors and of the applications change
accept_vars == <<accept_failed>>
chat_vars == <<clients_, chat_next, chat_out>>
c4_vars == <<players_, games_, c4_next, c4_call, c4_out, c4_process>>
part_vars == <<accept_vars, chat_vars, c4_vars>>
more_vars == <<copy_vars, part_vars, wr_failed, do_writes>>
aux_vars == <<codec_vars, mt_vars, ct_vars, port_vars, more_vars>>
vars == <<main_vars, aux_vars>>

\* ---------------------------------------------------------------- helpers
Range(s) == {s[i] : i \in 1 .. Len(s)}

IsPrefix(s, t) == Len(s) <= Len(t) /\ SubSeq(t, 1, Len(s)) = s

RECURSIVE RemoveAll(_, _)
\* std::list::remove: erases every element equal to the value
RemoveAll(s, x) ==
  IF s = <<>> THEN <<>>
  ELSE IF Head(s) = x THEN RemoveAll(Tail(s), x)
       ELSE <<Head(s)>> \o RemoveAll(Tail(s), x)

RECURSIVE SumLen(_, _)
SumLen(f, n) == IF n < 0 THEN 0 ELSE Len(f[n]) + SumLen(f, n - 1)
\* the net_client::send calls made so far, over all clients
NCSend == SumLen(c_enq, MaxConn - 1)

\* the send calls and connection failures so far
Events == nsend + NCSend + nfault

\* the bodies the next send call may carry. The library copies bodies and
\* never looks into them, so every call is given a byte value of its own and
\* the frames stay apart in the queues, on the streams and in the callbacks
Bodies == {[j \in 1 .. n |-> Events + 1] : n \in 1 .. MaxLen}

\* ---------------------------------------------------------------- net_message
\* the content of header bytes that were never written
Uninit == -1

header_length == 4
max_body_length == 512

\* net_message(body, length) for a length up to max_body_length:
\* body_length_ = length, the header holds the decimal length, the body bytes
\* follow
net_message(body) == [body_length_ |-> Len(body), hdr |-> Len(body), data |-> body]

\* net_message(): body_length_ = 0, data_ left as it is
empty_message == [body_length_ |-> 0, hdr |-> Uninit, data |-> <<>>]

\* "server: connected", the body of the first frame of every connection; one
\* byte no application sends stands for its 17
first_message == <<0>>

\* the two pieces a frame occupies on the stream
HdrItem(m) == [t |-> "hdr", n |-> m.hdr, b |-> <<>>]
BodyItem(m) == [t |-> "body", n |-> m.body_length_, b |-> m.data]

\* async_read into data_ + header_length: the bytes received overwrite the
\* front of the body area, what lay behind them stays
Overwrite(area, new) == new \o SubSeq(area, Len(new) + 1, Len(area))

\* the values memcpy(body, get_body(), get_body_length()) can copy out: the
\* area's bytes, and any byte for the part of the area never written
Extracted(m) ==
  IF m.body_length_ <= Len(m.data)
  THEN {SubSeq(m.data, 1, m.body_length_)}
  ELSE {m.data \o pad : pad \in [1 .. (m.body_length_ - Len(m.data)) -> Bytes]}

\* the lengths decode_header can produce from the header bytes of a frame of
\* the applications, the byte behind its copy of the header being no digit
\* (SpecCodec has decode_header with every such byte)
Decoded(m) == IF m.hdr = Uninit THEN 0 .. MaxLen ELSE {m.hdr}

\* ---------------------------------------------------------------- net_message, byte by byte
MaxOver == 2        \* how far past max_body_length the lengths given to the constructor go
MaxTail == 1        \* bytes behind decode_header's copy of the header that may hold a digit

\* std::size_t has 64 bits; the model's integers end below 2^31, so it keeps
\* this many: a negative int converted to std::size_t still lands above
\* every length a frame can have
SizeBits == 30

\* static_cast of an int to std::size_t
size_t(v) == v % (2 ^ SizeBits)

\* the characters headers are tried with: space, '-', 'x' and the digits
\* 0, 1, 2, 5 and 9
HeaderChars == {32, 45, 120, 48, 49, 50, 53, 57}

\* what may lie behind the 4 header bytes in decode_header's
\* char header[header_length + 1], whose last element is never written:
\* digits ('0' or '7') up to MaxTail of them, then a byte that is no digit
Tails == UNION {[1 .. n -> {48, 55}] : n \in 0 .. MaxTail}

\* the bodies the constructor is tried with: one of every length up to
\* max_body_length + MaxOver, in two fillings that change from byte to byte
TestBodies ==
  {[j \in 1 .. n |-> 65 + ((j + f) % 26)] : n \in 0 .. (max_body_length + MaxOver), f \in 0 .. 1}

isspace(c) == c = 32 \/ c \in 9 .. 13
isdigit(c) == c \in 48 .. 57

RECURSIVE SkipSpace(_)
SkipSpace(s) == IF s # <<>> /\ isspace(Head(s)) THEN SkipSpace(Tail(s)) ELSE s

RECURSIVE ReadDigits(_, _)
ReadDigits(s, acc) ==
  IF s # <<>> /\ isdigit(Head(s))
  THEN ReadDigits(Tail(s), (acc * 10) + (Head(s) - 48))
  ELSE acc

\* std::atoi: white space is skipped, a sign is taken, digits are read up to
\* the first character that is none
atoi(s) ==
  LET t == SkipSpace(s)
      signed == t # <<>> /\ Head(t) \in {43, 45}
      v == ReadDigits(IF signed THEN Tail(t) ELSE t, 0)
  IN IF signed /\ Head(t) = 45 THEN 0 - v ELSE v

RECURSIVE Decimal(_)
Decimal(n) == IF n < 10 THEN <<48 + n>> ELSE Decimal(n \div 10) \o <<48 + (n % 10)>>

RECURSIVE PadLeft(_, _)
PadLeft(s, width) == IF Len(s) < width THEN PadLeft(<<32>> \o s, width) ELSE s

\* std::sprintf(header, "%4d", n) for n >= 0: the decimal digits of n, put
\* to the right of spaces when they are fewer than 4
sprintf_4d(n) == PadLeft(Decimal(n), header_length)

RECURSIVE LittleEndian(_)
LittleEndian(s) == IF s = <<>> THEN 0 ELSE Head(s) + (256 * LittleEndian(Tail(s)))

\* body_length_ after memcpy has written the bytes past behind the end of
\* data_: on a build that pads data_ they lie in the padding, on one that
\* does not they are the low bytes of body_length_
AfterOverrun(length, past) ==
  IF past = <<>> THEN {length}
  ELSE {length, ((length \div (256 ^ Len(past))) * (256 ^ Len(past))) + LittleEndian(past)}

\* net_message(): body_length_(0), data_ not initialised. data_ is kept as
\* far as it has been written; the bytes of the array behind that hold Uninit
net_message_default == [data_ |-> <<>>, body_length_ |-> 0, past_end |-> <<>>]

\* data_[k - 1]
byte(m, k) == IF k <= Len(m.data_) THEN m.data_[k] ELSE Uninit

\* net_message(body, length), with length the length of body: the objects
\* the constructor can leave behind. body_length_ is length, the header is
\* sprintf's first 4 characters, and all length bytes are copied, those that
\* do not fit in data_ past its end
net_message_bytes(body) ==
  LET length == Len(body)
      header == sprintf_4d(length)
      fit == IF length <= max_body_length THEN length ELSE max_body_length
      past == SubSeq(body, fit + 1, length)
      data == SubSeq(header, 1, header_length) \o SubSeq(body, 1, fit)
  IN {[data_ |-> data, body_length_ |-> n, past_end |-> past] : n \in AfterOverrun(length, past)}

\* get_data()[0 .. header_length): the header bytes
get_header(m) == [k \in 1 .. header_length |-> byte(m, k)]

\* get_body()[0 .. n): the first n body bytes, as far as data_ reaches
get_body(m, n) ==
  [k \in 1 .. (IF n <= max_body_length THEN n ELSE max_body_length) |->
     byte(m, header_length + k)]

RECURSIVE Contents(_)
\* the contents a run of bytes can have when read: a byte never written can
\* hold any character
Contents(s) ==
  IF s = <<>> THEN {<<>>}
  ELSE {<<c>> \o r : c \in (IF Head(s) = Uninit THEN HeaderChars ELSE {Head(s)}),
                      r \in Contents(Tail(s))}

\* net_message::decode_header with header holding hdr and tail behind it:
\* atoi reads on through tail, and the int it returns is stored in the
\* std::size_t body_length_ as it is, whether or not it passes max_body_length
decode_header(m, hdr, tail) ==
  [m EXCEPT !.body_length_ = size_t(atoi(hdr \o tail \o <<0>>))]

\* the first n bytes memcpy reads from other.data_, n within the array
copied(other, n) == [k \in 1 .. n |-> byte(other, k)]

\* net_message(const net_message& other) for an other that fits in data_:
\* body_length_, and the header and body bytes of other
net_message_copy(other) ==
  [data_ |-> copied(other, other.body_length_ + header_length),
   body_length_ |-> other.body_length_,
   past_end |-> <<>>]

\* operator= that copies as the copy constructor does
assign_as_copy(target, other) ==
  [data_ |-> Overwrite(target.data_, copied(other, other.body_length_ + header_length)),
   body_length_ |-> other.body_length_,
   past_end |-> <<>>]

\* net_message::operator= on target, for an other that fits in data_:
\* body_length_, and the first body_length_ bytes of other.data_, header
\* included; what target held behind them stays
assign(target, other) ==
  [data_ |-> Overwrite(target.data_, copied(other, other.body_length_)),
   body_length_ |-> other.body_length_,
   past_end |-> <<>>]

\* the objects assigned to: a default-constructed one, and frames of 0 and
\* of 8 bytes 'z'
Targets ==
  {net_message_default}
    \cup UNION {net_message_bytes([j \in 1 .. n |-> 122]) : n \in {0, 8}}

NoOp == [op |-> "none", body |-> <<>>, on |-> "none", tail |-> <<>>]

InitCodec ==
  /\ nm = net_message_default
  /\ nm_op = NoOp
  /\ nm2 = net_message_default

\* a frame is built from a body
Construct(body) ==
  /\ nm_op.op = "none"
  /\ nm' \in net_message_bytes(body)
  /\ nm_op' = [NoOp EXCEPT !.op = "net_message", !.body = body]
  /\ UNCHANGED <<nm2, main_vars, mt_vars, ct_vars, port_vars, more_vars>>

\* a frame just built that fits in data_ is copied into a new object
CopyConstruct ==
  /\ nm_op.op = "net_message"
  /\ nm.body_length_ <= max_body_length
  /\ nm2' = net_message_copy(nm)
  /\ nm_op' = [nm_op EXCEPT !.op = "copy", !.on = nm_op.op]
  /\ UNCHANGED <<nm, main_vars, mt_vars, ct_vars, port_vars, more_vars>>

\* a frame just built that fits in data_ is assigned to an object
Assign(target) ==
  /\ nm_op.op = "net_message"
  /\ nm.body_length_ <= max_body_length
  /\ nm2' = assign(target, nm)
  /\ nm_op' = [nm_op EXCEPT !.op = "operator=", !.on = nm_op.op]
  /\ UNCHANGED <<nm, main_vars, mt_vars, ct_vars, port_vars, more_vars>>

\* async_read of the header into read_message_.get_data(): 4 bytes arrive
ReceiveHeader(hdr) ==
  /\ nm_op.op = "none"
  /\ nm' = [nm EXCEPT !.data_ = Overwrite(@, hdr)]
  /\ nm_op' = [NoOp EXCEPT !.op = "receive"]
  /\ UNCHANGED <<nm2, main_vars, mt_vars, ct_vars, port_vars, more_vars>>

\* decode_header is called on the object: on a frame just built, on one
\* whose header just arrived, or on one whose header never arrived
DecodeHeader ==
  /\ nm_op.op # "decode_header"
  /\ \E hdr \in Contents(get_header(nm)), tail \in Tails :
       /\ nm' = decode_header(nm, hdr, tail)
       /\ nm_op' = [nm_op EXCEPT !.op = "decode_header", !.on = nm_op.op, !.tail = tail]
  /\ UNCHANGED <<nm2, main_vars, mt_vars, ct_vars, port_vars, more_vars>>

\* ---------------------------------------------------------------- frames as objects
\* send_to_all with the net_message objects it makes told apart by address:
\* msg on its stack, the parameter of tcp_connection::send, and the elements
\* of the connections' deques. Two connections are registered; everything
\* runs on one thread, so no write completes while the call is under way.
MaxBroadcasts == 2  \* send_to_all calls over the run
NumQueues == 2      \* connections registered

Queues == 1 .. NumQueues

\* the bodies broadcast: "a", "bc" and the empty one
CopyBodies == {<<>>, <<97>>, <<98, 99>>}

NoBroadcast == [pc |-> "idle", msg |-> 0, arg |-> 0, it |-> 0]

InitCopy ==
  /\ objects = <<>>
  /\ caller_buf = <<>>
  /\ bcast = NoBroadcast
  /\ queue_ = [c \in Queues |-> <<>>]
  /\ wire = [c \in Queues |-> <<>>]
  /\ sent = [c \in Queues |-> <<>>]

\* the address of the next object constructed
fresh == Len(objects) + 1

\* an object is constructed holding m
construct(os, m) == Append(os, [live |-> TRUE, m |-> m])

\* an object's lifetime ends: what its storage holds is no longer defined
destroy(os, a) == [os EXCEPT ![a] = [live |-> FALSE, m |-> net_message_default]]

\* the bytes async_write sends for the frame at address a: get_data(),
\* get_body_length() + header_length of them
frame_bytes(m) == copied(m, m.body_length_ + header_length)

\* a deque that keeps a reference to the object pushed
push_back_reference(arg, element) == arg

\* write_messages_.push_back(msg): the deque copy-constructs an element of
\* its own, at element, from the object at arg; the address it keeps
push_back(arg, element) == element

\* the application calls send_to_all(body, length): net_message msg(body, length)
BroadcastBegins(body) ==
  /\ bcast.pc = "idle"
  /\ Len(sent[1]) < MaxBroadcasts
  /\ caller_buf' = body
  /\ \E m \in net_message_bytes(body) : objects' = construct(objects, m)
  /\ bcast' = [pc |-> "loop", msg |-> fresh, arg |-> 0, it |-> 1]
  /\ UNCHANGED <<queue_, wire, sent>>
  /\ UNCHANGED <<main_vars, codec_vars, mt_vars, ct_vars, port_vars, part_vars,
                 wr_failed, do_writes>>

\* connection->send(msg): the parameter, passed by value, is copy-constructed
\* from msg
SendEnters ==
  /\ bcast.pc = "loop"
  /\ bcast.it <= NumQueues
  /\ objects' = construct(objects, net_message_copy(objects[bcast.msg].m))
  /\ bcast' = [bcast EXCEPT !.pc = "send", !.arg = fresh]
  /\ UNCHANGED <<caller_buf, queue_, wire, sent>>
  /\ UNCHANGED <<main_vars, codec_vars, mt_vars, ct_vars, port_vars, part_vars,
                 wr_failed, do_writes>>

\* tcp_connection::send: write_messages_.push_back(msg), and do_write() when
\* the queue was empty
SendPushes ==
  /\ bcast.pc = "send"
  /\ objects' = construct(objects, net_message_copy(objects[bcast.arg].m))
  /\ queue_' = [queue_ EXCEPT ![bcast.it] = Append(@, push_back(bcast.arg, fresh))]
  /\ sent' = [sent EXCEPT ![bcast.it] = Append(@, caller_buf)]
  /\ bcast' = [bcast EXCEPT !.pc = "pushed"]
  /\ UNCHANGED <<caller_buf, wire>>
  /\ UNCHANGED <<main_vars, codec_vars, mt_vars, ct_vars, port_vars, part_vars,
                 wr_failed, do_writes>>

\* tcp_connection::send returns: its parameter is destroyed, the loop goes on
SendReturns ==
  /\ bcast.pc = "pushed"
  /\ objects' = destroy(objects, bcast.arg)
  /\ bcast' = [bcast EXCEPT !.pc = "loop", !.arg = 0, !.it = @ + 1]
  /\ UNCHANGED <<caller_buf, queue_, wire, sent>>
  /\ UNCHANGED <<main_vars, codec_vars, mt_vars, ct_vars, port_vars, part_vars,
                 wr_failed, do_writes>>

\* send_to_all returns: msg is destroyed
BroadcastReturns ==
  /\ bcast.pc = "loop"
  /\ bcast.it > NumQueues
  /\ objects' = destroy(objects, bcast.msg)
  /\ bcast' = NoBroadcast
  /\ UNCHANGED <<caller_buf, queue_, wire, sent>>
  /\ UNCHANGED <<main_vars, codec_vars, mt_vars, ct_vars, port_vars, part_vars,
                 wr_failed, do_writes>>

\* the application writes something else into its buffer
CallerReuses(body) ==
  /\ bcast.pc = "idle"
  /\ caller_buf # body
  /\ caller_buf' = body
  /\ UNCHANGED <<objects, bcast, queue_, wire, sent>>
  /\ UNCHANGED <<main_vars, codec_vars, mt_vars, ct_vars, port_vars, part_vars,
                 wr_failed, do_writes>>

\* do_write's completion handler on connection c, the write having
\* succeeded: the bytes of write_messages_.front() have gone out,
\* pop_front() destroys the element
FrameWritten(c) ==
  /\ bcast.pc = "idle"
  /\ queue_[c] # <<>>
  /\ wire' = [wire EXCEPT ![c] = Append(@, frame_bytes(objects[Head(queue_[c])].m))]
  /\ objects' = destroy(objects, Head(queue_[c]))
  /\ queue_' = [queue_ EXCEPT ![c] = Tail(@)]
  /\ UNCHANGED <<caller_buf, bcast, sent>>
  /\ UNCHANGED <<main_vars, codec_vars, mt_vars, ct_vars, port_vars, part_vars,
                 wr_failed, do_writes>>

\* ---------------------------------------------------------------- state
Idle == [kind |-> "idle", id |-> 0, connect |-> FALSE]
NoCall == [op |-> "none", id |-> 0, body |-> <<>>, notfound |-> FALSE]

\* the members as the constructors leave them
InitMembers ==
  /\ next_id_ = 0
  /\ connections_ = <<>>
  /\ obj = [i \in Ids |-> "none"]
  /\ write_messages_ = [i \in Ids |-> <<>>]
  /\ wr = [i \in Ids |-> FALSE]
  /\ rd = [i \in Ids |-> "none"]
  /\ read_message_ = [i \in Ids |-> empty_message]
  /\ ctx = Idle
  /\ last = [call |-> NoCall, pre |-> [i \in Ids |-> <<>>], reg |-> <<>>]
  /\ sock = [i \in Ids |-> "none"]
  /\ s2c = [i \in Ids |-> <<>>]
  /\ c2s = [i \in Ids |-> <<>>]
  /\ c_alive = [i \in Ids |-> FALSE]
  /\ c_write_messages_ = [i \in Ids |-> <<>>]
  /\ c_wr = [i \in Ids |-> FALSE]
  /\ c_rd = [i \in Ids |-> "none"]
  /\ c_read_message_ = [i \in Ids |-> empty_message]
  /\ assigned = <<>>
  /\ enq = [i \in Ids |-> <<>>]
  /\ wrote = [i \in Ids |-> <<>>]
  /\ deliv = [i \in Ids |-> <<>>]
  /\ c_enq = [i \in Ids |-> <<>>]
  /\ c_wrote = [i \in Ids |-> <<>>]
  /\ s_deliv = [i \in Ids |-> <<>>]
  /\ ncb = [i \in Ids |-> [connect |-> 0, disconnect |-> 0]]
  /\ rd_failed = [i \in Ids |-> "no"]
  /\ c_rd_failed = [i \in Ids |-> "no"]
  /\ nsend = 0
  /\ nfault = 0
  /\ wr_failed = [i \in Ids |-> <<>>]
  /\ do_writes = [i \in Ids |-> 0]

\* net_server's constructor has run: start_accept() has issued the first
\* async_accept
InitMain ==
  /\ InitMembers
  /\ accept_pending = TRUE

\* ---------------------------------------------------------------- tcp_connection
\* tcp_connection::valid: valid_ is set in the constructor and nowhere else
valid(i) == TRUE

\* send that calls do_write whatever the queue held
send_always_writes(q, w, msg) == [q |-> Append(q, msg), w |-> TRUE, calls |-> 1]

\* send that leaves the write to a loop it takes to be running
send_without_write(q, w, msg) == [q |-> Append(q, msg), w |-> w, calls |-> 0]

\* tcp_connection::send: push_back, and do_write when the queue was empty;
\* calls is the number of do_write() calls it makes
send(q, w, msg) ==
  LET write_in_progress == q # <<>>
  IN [q |-> Append(q, msg), w |-> IF ~write_in_progress THEN TRUE ELSE w,
      calls |-> IF ~write_in_progress THEN 1 ELSE 0]

\* the outcomes of an async_write on the server's end of connection i
WriteOutcomes(i) ==
  CASE sock[i] = "open" -> {"ok"}
    [] sock[i] = "closed_c" -> {"ok", "err"}
    [] OTHER -> {"err"}

\* the outcomes of an async_read of n bytes on the server's end; none while
\* the read has to wait
ReadOutcomes(i, n) ==
  CASE n = 0 -> {"ok"}
    [] sock[i] = "broken" -> {"other"}
    [] sock[i] = "reset" -> {"reset"}
    [] c2s[i] # <<>> -> {"ok"}
    [] sock[i] = "closed_c" -> {"eof"}
    [] OTHER -> {}

\* the completion handler of do_write
WriteComplete(i) ==
  /\ ctx = Idle
  /\ obj[i] = "live"
  /\ wr[i]
  /\ \E r \in WriteOutcomes(i) :
       IF r = "ok"
       THEN LET m == Head(write_messages_[i])
                rest == Tail(write_messages_[i])
            IN /\ write_messages_' = [write_messages_ EXCEPT ![i] = rest]
               /\ wr' = [wr EXCEPT ![i] = (rest # <<>>)]
               /\ s2c' = [s2c EXCEPT ![i] =
                            IF sock[i] = "open" THEN @ \o <<HdrItem(m), BodyItem(m)>> ELSE @]
               /\ wrote' = [wrote EXCEPT ![i] = Append(@, m.data)]
               /\ do_writes' = [do_writes EXCEPT ![i] = IF rest # <<>> THEN @ + 1 ELSE @]
               /\ UNCHANGED wr_failed
       ELSE /\ wr' = [wr EXCEPT ![i] = FALSE]
            /\ wr_failed' = [wr_failed EXCEPT ![i] = Append(@, Head(write_messages_[i]))]
            /\ UNCHANGED <<write_messages_, s2c, wrote, do_writes>>
  /\ UNCHANGED <<next_id_, connections_, accept_pending, obj, rd, read_message_, ctx, last>>
  /\ UNCHANGED <<sock, c2s>>
  /\ UNCHANGED cli_vars
  /\ UNCHANGED <<assigned, enq, deliv, c_enq, c_wrote, s_deliv, ncb, rd_failed, c_rd_failed,
                 nsend, nfault>>
  /\ UNCHANGED <<codec_vars, mt_vars, ct_vars, port_vars, copy_vars, part_vars>>

\* the completion handler of a do_write whose connection was destroyed while
\* the write was outstanding: the socket's destructor cancels the write and
\* the handler runs with operation_aborted
WriteAborted(i) ==
  /\ ctx = Idle
  /\ obj[i] = "destroyed"
  /\ wr[i]
  /\ wr' = [wr EXCEPT ![i] = FALSE]
  /\ UNCHANGED <<next_id_, connections_, accept_pending, obj, write_messages_, rd,
                 read_message_, ctx, last>>
  /\ UNCHANGED <<net_vars, cli_vars, hist_vars>>
  /\ UNCHANGED aux_vars

\* client_disconnect without the removal from connections_
client_disconnect_keeps(i) ==
  /\ connections_' = connections_
  /\ ctx' = [kind |-> "accept_handler", id |-> i, connect |-> FALSE]
  /\ ncb' = [ncb EXCEPT ![i].disconnect = @ + 1]

\* net_server::client_disconnect up to the call of accept_handler_(id, false)
client_disconnect(i) ==
  /\ connections_' = RemoveAll(connections_, i)
  /\ ctx' = [kind |-> "accept_handler", id |-> i, connect |-> FALSE]
  /\ ncb' = [ncb EXCEPT ![i].disconnect = @ + 1]

\* tcp_connection::handle_read_header
handle_read_header(i) ==
  /\ ctx = Idle
  /\ obj[i] = "live"
  /\ rd[i] = "header"
  /\ \E e \in ReadOutcomes(i, header_length) :
       /\ rd_failed' = [rd_failed EXCEPT ![i] =
                          IF @ = "no" /\ e # "ok" THEN e ELSE @]
       /\ IF e = "eof" \/ e = "reset"
          THEN /\ client_disconnect(i)
               /\ rd' = [rd EXCEPT ![i] = "none"]
               /\ UNCHANGED <<read_message_, c2s>>
          ELSE /\ \E n \in Decoded(IF e = "ok"
                                   THEN [read_message_[i] EXCEPT !.hdr = Head(c2s[i]).n]
                                   ELSE read_message_[i]) :
                    read_message_' = [read_message_ EXCEPT
                       ![i].hdr = IF e = "ok" THEN Head(c2s[i]).n ELSE @,
                       ![i].body_length_ = n]
               /\ c2s' = [c2s EXCEPT ![i] = IF e = "ok" THEN Tail(@) ELSE @]
               /\ rd' = [rd EXCEPT ![i] = "body"]
               /\ UNCHANGED <<connections_, ctx, ncb>>
  /\ UNCHANGED <<next_id_, accept_pending, obj, write_messages_, wr, last>>
  /\ UNCHANGED <<sock, s2c>>
  /\ UNCHANGED cli_vars
  /\ UNCHANGED <<assigned, enq, wrote, deliv, c_enq, c_wrote, s_deliv, c_rd_failed, nsend,
                 nfault>>
  /\ UNCHANGED aux_vars

\* handle_read_body with read_header() called ahead of read_handler_
read_header_first(i) == [rd EXCEPT ![i] = "header"]

\* the reads outstanding when handle_read_body calls read_handler_: the
\* body read of connection i has completed and read_header() comes after
\* the call
reads_at_dispatch(i) == [rd EXCEPT ![i] = "none"]

\* tcp_connection::handle_read_body up to the call of read_handler_
handle_read_body(i) ==
  /\ ctx = Idle
  /\ obj[i] = "live"
  /\ rd[i] = "body"
  /\ \E e \in ReadOutcomes(i, read_message_[i].body_length_) :
       /\ (rd_failed[i] = "no" /\ e = "ok") \/ Len(s_deliv[i]) < MaxDeliv
       /\ LET got == e = "ok" /\ read_message_[i].body_length_ > 0
              m == IF got
                   THEN [read_message_[i] EXCEPT !.data = Overwrite(@, Head(c2s[i]).b)]
                   ELSE read_message_[i]
          IN /\ rd_failed' = [rd_failed EXCEPT ![i] =
                                IF @ = "no" /\ e # "ok" THEN e ELSE @]
             /\ read_message_' = [read_message_ EXCEPT ![i] = m]
             /\ c2s' = [c2s EXCEPT ![i] = IF got THEN Tail(@) ELSE @]
             /\ \E body \in Extracted(m) :
                  s_deliv' = [s_deliv EXCEPT ![i] = Append(@, body)]
  /\ rd' = reads_at_dispatch(i)
  /\ ctx' = [kind |-> "read_handler", id |-> i, connect |-> FALSE]
  /\ UNCHANGED <<next_id_, connections_, accept_pending, obj, write_messages_, wr, last>>
  /\ UNCHANGED <<sock, s2c>>
  /\ UNCHANGED cli_vars
  /\ UNCHANGED <<assigned, enq, wrote, deliv, c_enq, c_wrote, ncb, c_rd_failed, nsend, nfault>>
  /\ UNCHANGED aux_vars

\* handle_read_body after read_handler_ has returned: read_header()
read_handler_return ==
  /\ ctx.kind = "read_handler"
  /\ rd' = [rd EXCEPT ![ctx.id] = "header"]
  /\ ctx' = Idle
  /\ last' = [last EXCEPT !.call = NoCall]
  /\ UNCHANGED <<next_id_, connections_, accept_pending, obj, write_messages_, wr,
                 read_message_>>
  /\ UNCHANGED <<net_vars, cli_vars, hist_vars>>
  /\ UNCHANGED aux_vars

\* client_disconnect after accept_handler_(id, false) has returned: the
\* handler's shared_ptr was the last owner, the connection is destroyed and
\* its socket closed
disconnect_return ==
  /\ ctx.kind = "accept_handler"
  /\ ~ctx.connect
  /\ obj' = [obj EXCEPT ![ctx.id] = "destroyed"]
  /\ write_messages_' = [write_messages_ EXCEPT ![ctx.id] = <<>>]
  /\ read_message_' = [read_message_ EXCEPT ![ctx.id] = empty_message]
  /\ ctx' = Idle
  /\ last' = [last EXCEPT !.call = NoCall]
  /\ UNCHANGED <<next_id_, connections_, accept_pending, wr, rd>>
  /\ UNCHANGED <<net_vars, cli_vars, hist_vars>>
  /\ UNCHANGED aux_vars

\* ---------------------------------------------------------------- net_server
\* start() without its read_header() call
start_no_read(id) ==
  LET r == send(write_messages_[id], wr[id], net_message(first_message))
  IN /\ write_messages_' = [write_messages_ EXCEPT ![id] = r.q]
     /\ wr' = [wr EXCEPT ![id] = r.w]
     /\ enq' = [enq EXCEPT ![id] = Append(@, first_message)]
     /\ do_writes' = [do_writes EXCEPT ![id] = @ + r.calls]
     /\ rd' = rd

\* start() without the welcome frame
start_no_welcome(id) ==
  /\ rd' = [rd EXCEPT ![id] = "header"]
  /\ UNCHANGED <<write_messages_, wr, enq, do_writes>>

\* tcp_connection::start: the welcome frame is sent, the first header read
\* is issued
start(id) ==
  LET r == send(write_messages_[id], wr[id], net_message(first_message))
  IN /\ write_messages_' = [write_messages_ EXCEPT ![id] = r.q]
     /\ wr' = [wr EXCEPT ![id] = r.w]
     /\ enq' = [enq EXCEPT ![id] = Append(@, first_message)]
     /\ do_writes' = [do_writes EXCEPT ![id] = @ + r.calls]
     /\ rd' = [rd EXCEPT ![id] = "header"]

\* the new connection pushed onto the list twice
registered_twice(list, id) == Append(Append(list, id), id)

\* the new connection put at the front of the list
registered_in_front(list, id) == <<id>> \o list

\* connections_.push_back(std::make_shared<tcp_connection>(..., id, ...))
registered(list, id) == Append(list, id)

\* the id taken from the size of the list instead of the counter
new_id_from_size == Len(connections_)

\* std::size_t id = next_id_++: the id the connection being accepted gets
new_id == next_id_

\* the handler of async_accept, without error, up to the call of
\* accept_handler_(id, true); a client that connects starts its read loop
\* (net_client::connect)
handle_accept ==
  /\ ctx = Idle
  /\ accept_pending
  /\ next_id_ < MaxConn
  /\ LET id == new_id
     IN /\ next_id_' = next_id_ + 1
        /\ connections_' = registered(connections_, id)
        /\ obj' = [obj EXCEPT ![id] = "live"]
        /\ start(id)
        /\ ctx' = [kind |-> "accept_handler", id |-> id, connect |-> TRUE]
        /\ assigned' = Append(assigned, id)
        /\ ncb' = [ncb EXCEPT ![id].connect = @ + 1]
        /\ sock' = [sock EXCEPT ![id] = "open"]
        /\ c_alive' = [c_alive EXCEPT ![id] = TRUE]
        /\ c_rd' = [c_rd EXCEPT ![id] = "header"]
  /\ accept_pending' = FALSE
  /\ UNCHANGED <<read_message_, last, s2c, c2s, c_write_messages_, c_wr, c_read_message_>>
  /\ UNCHANGED <<wrote, deliv, c_enq, c_wrote, s_deliv, rd_failed, c_rd_failed, nsend, nfault>>
  /\ UNCHANGED <<codec_vars, mt_vars, ct_vars, port_vars, copy_vars, part_vars, wr_failed>>

\* the handler of async_accept after accept_handler_(id, true) has
\* returned: start_accept()
accept_return ==
  /\ ctx.kind = "accept_handler"
  /\ ctx.connect
  /\ accept_pending' = TRUE
  /\ ctx' = Idle
  /\ last' = [last EXCEPT !.call = NoCall]
  /\ UNCHANGED <<next_id_, connections_, obj, write_messages_, wr, rd, read_message_>>
  /\ UNCHANGED <<net_vars, cli_vars, hist_vars>>
  /\ UNCHANGED aux_vars

RECURSIVE lower_bound(_, _, _, _)
\* std::lower_bound over connections_ with the comparison
\* c1->get_id() < id: the position it returns, Len + 1 for end()
lower_bound(s, first, count, id) ==
  IF count <= 0 THEN first
  ELSE LET step == count \div 2
           it == first + step
       IN IF s[it] < id
          THEN lower_bound(s, it + 1, count - (step + 1), id)
          ELSE lower_bound(s, first, step, id)

NullPtr == -1

\* find_connection with the comparison c1->get_id() <= id
find_connection_upper(id) ==
  LET after == {k \in 1 .. Len(connections_) : connections_[k] > id}
  IN IF after = {} THEN NullPtr
     ELSE connections_[CHOOSE k \in after : \A j \in after : k <= j]

\* net_server::find_connection: the connection at the position lower_bound
\* returns, nullptr when that is end()
find_connection(id) ==
  LET iterator == lower_bound(connections_, 1, Len(connections_), id)
  IN IF iterator = Len(connections_) + 1 THEN NullPtr ELSE connections_[iterator]

\* the effect on the connections of calling send(msg) on each of targets
SendEach(targets, body) ==
  /\ write_messages_' = [i \in Ids |->
       IF i \in targets
       THEN send(write_messages_[i], wr[i], net_message(body)).q
       ELSE write_messages_[i]]
  /\ wr' = [i \in Ids |->
       IF i \in targets
       THEN send(write_messages_[i], wr[i], net_message(body)).w
       ELSE wr[i]]
  /\ enq' = [i \in Ids |-> IF i \in targets THEN Append(enq[i], body) ELSE enq[i]]
  /\ do_writes' = [i \in Ids |->
       IF i \in targets
       THEN do_writes[i] + send(write_messages_[i], wr[i], net_message(body)).calls
       ELSE do_writes[i]]

\* what every send_* call made by the application shares
AppCall(op, id, body, notfound) ==
  /\ ctx # Idle
  /\ Events < MaxEvents
  /\ nsend' = nsend + 1
  /\ last' = [call |-> [op |-> op, id |-> id, body |-> body, notfound |-> notfound],
              pre |-> write_messages_, reg |-> connections_]
  /\ UNCHANGED <<next_id_, connections_, accept_pending, obj, rd, read_message_, ctx>>
  /\ UNCHANGED <<net_vars, cli_vars>>
  /\ UNCHANGED <<assigned, wrote, deliv, c_enq, c_wrote, s_deliv, ncb, rd_failed,
                 c_rd_failed, nfault>>
  /\ UNCHANGED <<codec_vars, mt_vars, ct_vars, port_vars, copy_vars, part_vars, wr_failed>>

\* net_server::send_to
send_to(id, body) ==
  LET connection == find_connection(id)
  IN /\ AppCall("send_to", id, body, connection = NullPtr)
     /\ SendEach(IF connection = NullPtr THEN {} ELSE {connection}, body)

\* send_to_all whose loop ends after the first connection
send_to_all_first_only(body) ==
  /\ AppCall("send_to_all", 0, body, FALSE)
  /\ SendEach(IF connections_ = <<>> THEN {} ELSE {Head(connections_)}, body)

\* net_server::send_to_all
send_to_all(body) ==
  /\ AppCall("send_to_all", 0, body, FALSE)
  /\ SendEach({c \in Range(connections_) : valid(c)}, body)

\* send_to_all_except without the test of get_id() against id
send_to_all_except_no_skip(id, body) ==
  /\ AppCall("send_to_all_except", id, body, FALSE)
  /\ SendEach({c \in Range(connections_) : valid(c)}, body)

\* net_server::send_to_all_except
send_to_all_except(id, body) ==
  /\ AppCall("send_to_all_except", id, body, FALSE)
  /\ SendEach({c \in Range(connections_) : c # id /\ valid(c)}, body)

\* ---------------------------------------------------------------- net_server on several threads
\* The handlers of the server when more than one thread runs
\* io_context.run(), which is what connections_mutex_ is there for. The
\* steps are those between which another thread can run: taking and
\* releasing the mutex, the change of connections_, and each turn of a loop
\* over connections_.
NThreads == 2       \* threads that run the server's io_context

Threads == 1 .. NThreads

\* connections_.end(), as the place of an iterator
ListEnd == MaxConn

IdleThread ==
  [pc |-> "idle", handler |-> "none", id |-> 0, op |-> "none", arg |-> 0,
   it |-> ListEnd, body |-> <<>>]

InitThreads ==
  /\ connections_mutex_ = 0
  /\ thr = [t \in Threads |-> IdleThread]

\* a thread that has used a list node erased under its iterator has run
\* into undefined behaviour; nothing is said of the process from there on
Running == \A t \in Threads : thr[t].pc # "undefined"

\* what no step of a handler on some thread changes
mt_rest == <<read_message_, ctx, last, net_vars, cli_vars, assigned, wrote, deliv, c_enq,
             c_wrote, s_deliv, ncb, rd_failed, c_rd_failed, nfault, codec_vars, ct_vars,
             port_vars, copy_vars, part_vars, wr_failed>>

\* the element after it in the list, end() behind the last
successor(it) ==
  LET k == CHOOSE j \in 1 .. Len(connections_) : connections_[j] = it
  IN IF k = Len(connections_) THEN ListEnd ELSE connections_[k + 1]

\* connections_.begin()
begin == IF connections_ = <<>> THEN ListEnd ELSE Head(connections_)

\* the accept handler starts on a thread: the next thing it does is
\* std::unique_lock lock(connections_mutex_)
AcceptBegins(t) ==
  /\ Running
  /\ thr[t].pc = "idle"
  /\ accept_pending
  /\ next_id_ < MaxConn
  /\ accept_pending' = FALSE
  /\ thr' = [thr EXCEPT ![t] = [IdleThread EXCEPT !.pc = "locking", !.handler = "accept"]]
  /\ UNCHANGED <<next_id_, connections_, obj, write_messages_, wr, rd, enq, nsend,
                 connections_mutex_, mt_rest, do_writes>>

\* a header read of connection i ends with EOF on a thread:
\* client_disconnect starts, the next thing it does is
\* std::scoped_lock lock(connections_mutex_)
DisconnectBegins(t, i) ==
  /\ Running
  /\ thr[t].pc = "idle"
  /\ obj[i] = "live"
  /\ rd[i] = "header"
  /\ rd' = [rd EXCEPT ![i] = "none"]
  /\ thr' = [thr EXCEPT ![t] =
               [IdleThread EXCEPT !.pc = "locking", !.handler = "disconnect", !.id = i]]
  /\ UNCHANGED <<next_id_, connections_, accept_pending, obj, write_messages_, wr, enq,
                 nsend, connections_mutex_, mt_rest, do_writes>>

\* a frame of connection i has been read on a thread: read_handler_ is called
MessageArrives(t, i) ==
  /\ Running
  /\ thr[t].pc = "idle"
  /\ obj[i] = "live"
  /\ rd[i] = "header"
  /\ rd' = [rd EXCEPT ![i] = "none"]
  /\ thr' = [thr EXCEPT ![t] =
               [IdleThread EXCEPT !.pc = "callback", !.handler = "read", !.id = i]]
  /\ UNCHANGED <<next_id_, connections_, accept_pending, obj, write_messages_, wr, enq,
                 nsend, connections_mutex_, mt_rest, do_writes>>

\* the lock is taken once the mutex is free
Lock(t) ==
  /\ Running
  /\ thr[t].pc = "locking"
  /\ connections_mutex_ = 0
  /\ connections_mutex_' = t
  /\ thr' = [thr EXCEPT ![t].pc = IF thr[t].handler = "accept" THEN "inserting" ELSE "removing"]
  /\ UNCHANGED <<next_id_, connections_, accept_pending, obj, write_messages_, wr, rd, enq,
                 nsend, mt_rest, do_writes>>

\* id = next_id_++ and connections_.push_back(...)
Insert(t) ==
  /\ Running
  /\ thr[t].pc = "inserting"
  /\ next_id_' = next_id_ + 1
  /\ connections_' = registered(connections_, new_id)
  /\ obj' = [obj EXCEPT ![new_id] = "live"]
  /\ thr' = [thr EXCEPT ![t].pc = "unlocking", ![t].id = new_id]
  /\ UNCHANGED <<accept_pending, write_messages_, wr, rd, enq, nsend, connections_mutex_,
                 mt_rest, do_writes>>

\* connections_.remove(connection)
Remove(t) ==
  /\ Running
  /\ thr[t].pc = "removing"
  /\ connections_' = RemoveAll(connections_, thr[t].id)
  /\ thr' = [thr EXCEPT ![t].pc = "unlocking"]
  /\ UNCHANGED <<next_id_, accept_pending, obj, write_messages_, wr, rd, enq, nsend,
                 connections_mutex_, mt_rest, do_writes>>

\* the lock kept until the handler returns
held_to_return(t) == t

\* the owner of connections_mutex_ after thread t's lock.unlock() in the
\* accept handler, or after the end of the scoped_lock's block in
\* client_disconnect: none
released(t) == 0

\* lock.unlock(), or the end of the scope of the scoped_lock
Unlock(t) ==
  /\ Running
  /\ thr[t].pc = "unlocking"
  /\ connections_mutex_' = released(t)
  /\ thr' = [thr EXCEPT ![t].pc = IF thr[t].handler = "accept" THEN "starting" ELSE "callback"]
  /\ UNCHANGED <<next_id_, connections_, accept_pending, obj, write_messages_, wr, rd, enq,
                 nsend, mt_rest, do_writes>>

\* connection->start(), then accept_handler_(id, true) is called
Start(t) ==
  /\ Running
  /\ thr[t].pc = "starting"
  /\ start(thr[t].id)
  /\ thr' = [thr EXCEPT ![t].pc = "callback"]
  /\ UNCHANGED <<next_id_, connections_, accept_pending, obj, nsend, connections_mutex_,
                 mt_rest>>

\* the application calls send_to, send_to_all or send_to_all_except from
\* its callback: the walk over connections_ starts at begin()
TraverseBegins(t, op, arg, body) ==
  /\ Running
  /\ thr[t].pc = "callback"
  /\ Events < MaxEvents
  /\ nsend' = nsend + 1
  /\ thr' = [thr EXCEPT ![t].pc = "traversing", ![t].op = op, ![t].arg = arg,
                         ![t].body = body, ![t].it = begin]
  /\ UNCHANGED <<next_id_, connections_, accept_pending, obj, write_messages_, wr, rd, enq,
                 connections_mutex_, mt_rest, do_writes>>

\* whether the walk of op with argument arg sends to the connection c it is at
Sends(op, arg, c) ==
  CASE op = "send_to" -> ~(c < arg)
    [] op = "send_to_all" -> valid(c)
    [] OTHER -> c # arg /\ valid(c)

\* one turn of the loop of send_to_all or send_to_all_except, or one step of
\* find_connection's search. The node under the iterator is read; when
\* another thread has erased it meanwhile, that is a use of freed memory
TraverseStep(t) ==
  /\ Running
  /\ thr[t].pc = "traversing"
  /\ thr[t].it # ListEnd
  /\ LET c == thr[t].it
     IN IF c \notin Range(connections_)
        THEN /\ thr' = [thr EXCEPT ![t].pc = "undefined"]
             /\ UNCHANGED <<write_messages_, wr, enq, do_writes>>
        ELSE /\ SendEach(IF Sends(thr[t].op, thr[t].arg, c) THEN {c} ELSE {}, thr[t].body)
             /\ thr' = [thr EXCEPT ![t].it =
                          IF thr[t].op = "send_to" /\ Sends(thr[t].op, thr[t].arg, c)
                          THEN ListEnd ELSE successor(c)]
  /\ UNCHANGED <<next_id_, connections_, accept_pending, obj, rd, nsend, connections_mutex_,
                 mt_rest>>

\* the walk has reached end(): the call returns to the callback
TraverseEnds(t) ==
  /\ Running
  /\ thr[t].pc = "traversing"
  /\ thr[t].it = ListEnd
  /\ thr' = [thr EXCEPT ![t].pc = "callback", ![t].op = "none", ![t].arg = 0,
                         ![t].body = <<>>]
  /\ UNCHANGED <<next_id_, connections_, accept_pending, obj, write_messages_, wr, rd, enq,
                 nsend, connections_mutex_, mt_rest, do_writes>>

\* the callback returns and the handler ends: start_accept() after an
\* accept, read_header() after a message, the connection's destruction
\* after a disconnect
HandlerEnds(t) ==
  /\ Running
  /\ thr[t].pc = "callback"
  /\ accept_pending' = IF thr[t].handler = "accept" THEN TRUE ELSE accept_pending
  /\ rd' = IF thr[t].handler = "read" THEN [rd EXCEPT ![thr[t].id] = "header"] ELSE rd
  /\ obj' = IF thr[t].handler = "disconnect"
            THEN [obj EXCEPT ![thr[t].id] = "destroyed"] ELSE obj
  /\ thr' = [thr EXCEPT ![t] = IdleThread]
  /\ UNCHANGED <<next_id_, connections_, write_messages_, wr, enq, nsend,
                 connections_mutex_, mt_rest, do_writes>>

\* ---------------------------------------------------------------- net_client
\* the outcomes of an async_write on the client's end of connection i
CWriteOutcomes(i) ==
  CASE sock[i] = "open" /\ obj[i] = "live" -> {"ok"}
    [] sock[i] = "open" -> {"ok", "err"}
    [] OTHER -> {"err"}

\* the outcomes of an async_read of n bytes on the client's end
CReadOutcomes(i, n) ==
  CASE n = 0 -> {"ok"}
    [] sock[i] = "broken" -> {"other"}
    [] sock[i] = "reset" -> {"reset"}
    [] s2c[i] # <<>> -> {"ok"}
    [] obj[i] = "destroyed" -> {"eof"}
    [] OTHER -> {}

\* net_client::send
c_send(i, body) ==
  /\ c_alive[i]
  /\ Events < MaxEvents
  /\ LET r == send(c_write_messages_[i], c_wr[i], net_message(body))
     IN /\ c_write_messages_' = [c_write_messages_ EXCEPT ![i] = r.q]
        /\ c_wr' = [c_wr EXCEPT ![i] = r.w]
  /\ c_enq' = [c_enq EXCEPT ![i] = Append(@, body)]
  /\ UNCHANGED <<srv_vars, net_vars, c_alive, c_rd, c_read_message_>>
  /\ UNCHANGED <<assigned, enq, wrote, deliv, c_wrote, s_deliv, ncb, rd_failed, c_rd_failed,
                 nsend, nfault>>
  /\ UNCHANGED aux_vars

\* the completion handler of net_client::do_write
c_write_complete(i) ==
  /\ c_alive[i]
  /\ c_wr[i]
  /\ \E r \in CWriteOutcomes(i) :
       IF r = "ok"
       THEN LET m == Head(c_write_messages_[i])
                rest == Tail(c_write_messages_[i])
            IN /\ c_write_messages_' = [c_write_messages_ EXCEPT ![i] = rest]
               /\ c_wr' = [c_wr EXCEPT ![i] = (rest # <<>>)]
               /\ c2s' = [c2s EXCEPT ![i] =
                            IF obj[i] = "live" THEN @ \o <<HdrItem(m), BodyItem(m)>> ELSE @]
               /\ c_wrote' = [c_wrote EXCEPT ![i] = Append(@, m.data)]
       ELSE /\ c_wr' = [c_wr EXCEPT ![i] = FALSE]
            /\ UNCHANGED <<c_write_messages_, c2s, c_wrote>>
  /\ UNCHANGED <<srv_vars, sock, s2c, c_alive, c_rd, c_read_message_>>
  /\ UNCHANGED <<assigned, enq, wrote, deliv, c_enq, s_deliv, ncb, rd_failed, c_rd_failed,
                 nsend, nfault>>
  /\ UNCHANGED aux_vars

\* net_client::handle_read_header: decode_header and read_body, whatever e is
c_handle_read_header(i) ==
  /\ c_alive[i]
  /\ c_rd[i] = "header"
  /\ \E e \in CReadOutcomes(i, header_length) :
       /\ \E n \in Decoded(IF e = "ok"
                           THEN [c_read_message_[i] EXCEPT !.hdr = Head(s2c[i]).n]
                           ELSE c_read_message_[i]) :
            c_read_message_' = [c_read_message_ EXCEPT
               ![i].hdr = IF e = "ok" THEN Head(s2c[i]).n ELSE @,
               ![i].body_length_ = n]
       /\ s2c' = [s2c EXCEPT ![i] = IF e = "ok" THEN Tail(@) ELSE @]
       /\ c_rd_failed' = [c_rd_failed EXCEPT ![i] =
                            IF @ = "no" /\ e # "ok" THEN e ELSE @]
  /\ c_rd' = [c_rd EXCEPT ![i] = "body"]
  /\ UNCHANGED <<srv_vars, sock, c2s, c_alive, c_write_messages_, c_wr>>
  /\ UNCHANGED <<assigned, enq, wrote, deliv, c_enq, c_wrote, s_deliv, ncb, rd_failed,
                 nsend, nfault>>
  /\ UNCHANGED aux_vars

\* net_client::handle_read_body: read_handler_ and read_header, whatever e is
c_handle_read_body(i) ==
  /\ c_alive[i]
  /\ c_rd[i] = "body"
  /\ \E e \in CReadOutcomes(i, c_read_message_[i].body_length_) :
       /\ (c_rd_failed[i] = "no" /\ e = "ok") \/ Len(deliv[i]) < MaxDeliv
       /\ LET got == e = "ok" /\ c_read_message_[i].body_length_ > 0
              m == IF got
                   THEN [c_read_message_[i] EXCEPT !.data = Overwrite(@, Head(s2c[i]).b)]
                   ELSE c_read_message_[i]
          IN /\ c_rd_failed' = [c_rd_failed EXCEPT ![i] =
                                  IF @ = "no" /\ e # "ok" THEN e ELSE @]
             /\ c_read_message_' = [c_read_message_ EXCEPT ![i] = m]
             /\ s2c' = [s2c EXCEPT ![i] = IF got THEN Tail(@) ELSE @]
             /\ \E body \in Extracted(m) :
                  deliv' = [deliv EXCEPT ![i] = Append(@, body)]
  /\ c_rd' = [c_rd EXCEPT ![i] = "header"]
  /\ UNCHANGED <<srv_vars, sock, c2s, c_alive, c_write_messages_, c_wr>>
  /\ UNCHANGED <<assigned, enq, wrote, c_enq, c_wrote, s_deliv, ncb, rd_failed, nsend, nfault>>
  /\ UNCHANGED aux_vars

\* ---------------------------------------------------------------- net_client on two threads
\* The client as its header documents its use: io_context.run() on a thread
\* of its own, net_client::send called from the application's thread. The
\* steps are the statements of send and of do_write's completion handler,
\* between which the other thread can run. The client looked at is client 0;
\* its connection stays up and its writes succeed.
AppIdle == [pc |-> "idle", write_in_progress |-> FALSE, body |-> <<>>]

InitClientThreads ==
  /\ c_inflight = <<>>
  /\ app_thread = AppIdle
  /\ io_thread = "idle"

\* neither thread has run into undefined behaviour
ClientRunning == app_thread.pc # "undefined" /\ io_thread # "undefined"

\* what no statement of send or of the completion handler changes
ct_rest == <<srv_vars, sock, s2c, c_alive, c_wr, c_rd, c_read_message_, assigned, enq, wrote,
             deliv, s_deliv, ncb, rd_failed, c_rd_failed, nsend, nfault, codec_vars,
             mt_vars, port_vars, more_vars>>

\* do_write: async_write of write_messages_.front(), the frame at the head
\* of the queue when the write is started
do_write == Append(c_inflight, Head(c_write_messages_[0]))

\* send: bool write_in_progress = !write_messages_.empty()
SendTestsQueue(body) ==
  /\ ClientRunning
  /\ c_alive[0]
  /\ app_thread.pc = "idle"
  /\ Events < MaxEvents
  /\ app_thread' = [pc |-> "emplace", write_in_progress |-> c_write_messages_[0] # <<>>,
                    body |-> body]
  /\ UNCHANGED <<c_write_messages_, c_enq, c_wrote, c2s, c_inflight, io_thread, ct_rest>>

\* send: write_messages_.emplace_back(body, length)
SendEmplaces ==
  /\ ClientRunning
  /\ app_thread.pc = "emplace"
  /\ c_write_messages_' = [c_write_messages_ EXCEPT ![0] = Append(@, net_message(app_thread.body))]
  /\ c_enq' = [c_enq EXCEPT ![0] = Append(@, app_thread.body)]
  /\ app_thread' = [app_thread EXCEPT !.pc = "write"]
  /\ UNCHANGED <<c_wrote, c2s, c_inflight, io_thread, ct_rest>>

\* send: if (!write_in_progress) do_write(), and the return; front() is
\* undefined when the completion handlers have emptied the queue meanwhile
SendWrites ==
  /\ ClientRunning
  /\ app_thread.pc = "write"
  /\ IF app_thread.write_in_progress
     THEN c_inflight' = c_inflight /\ app_thread' = AppIdle
     ELSE IF c_write_messages_[0] = <<>>
          THEN c_inflight' = c_inflight /\ app_thread' = [app_thread EXCEPT !.pc = "undefined"]
          ELSE c_inflight' = do_write /\ app_thread' = AppIdle
  /\ UNCHANGED <<c_write_messages_, c_enq, c_wrote, c2s, io_thread, ct_rest>>

\* an async_write has completed without error, its frame is on the stream
\* and its handler runs: write_messages_.pop_front(), which is undefined on
\* an empty deque
CompletionPops ==
  /\ ClientRunning
  /\ io_thread = "idle"
  /\ c_inflight # <<>>
  /\ c_inflight' = Tail(c_inflight)
  /\ c2s' = [c2s EXCEPT ![0] = @ \o <<HdrItem(Head(c_inflight)), BodyItem(Head(c_inflight))>>]
  /\ c_wrote' = [c_wrote EXCEPT ![0] = Append(@, Head(c_inflight).data)]
  /\ IF c_write_messages_[0] = <<>>
     THEN /\ io_thread' = "undefined"
          /\ UNCHANGED c_write_messages_
     ELSE /\ io_thread' = "test"
          /\ c_write_messages_' = [c_write_messages_ EXCEPT ![0] = Tail(@)]
  /\ UNCHANGED <<c_enq, app_thread, ct_rest>>

\* the handler: if (!write_messages_.empty()) do_write(), and the return
CompletionWrites ==
  /\ ClientRunning
  /\ io_thread = "test"
  /\ c_inflight' = IF c_write_messages_[0] # <<>> THEN do_write ELSE c_inflight
  /\ io_thread' = "idle"
  /\ UNCHANGED <<c_write_messages_, c_enq, c_wrote, c2s, app_thread, ct_rest>>

\* a read handler of client i runs, for client 0 on the I/O thread when that
\* is in no other handler
ClientReads(i) ==
  /\ ClientRunning
  /\ i = 0 => io_thread = "idle"
  /\ c_handle_read_header(i) \/ c_handle_read_body(i)

\* ---------------------------------------------------------------- ports, clients left alone
\* the port every application of the repository passes, and the one
\* net_server's constructor names
DefaultPort == 1234
MaxPortOffset == 5  \* how far from DefaultPort the ports tried lie

Ports == (DefaultPort - MaxPortOffset) .. (DefaultPort + MaxPortOffset)

\* acceptor_(io_context, tcp::endpoint(tcp::v4(), 1234)): the port the
\* acceptor is bound to when the constructor is given port
acceptor_port(port) == DefaultPort

\* the server as every application constructs it
InitPorts ==
  /\ port_arg = DefaultPort
  /\ listen_port = acceptor_port(DefaultPort)
  /\ c_failed = <<>>

\* no server constructed yet
InitUnbuilt ==
  /\ InitMembers
  /\ accept_pending = FALSE
  /\ port_arg = 0
  /\ listen_port = 0
  /\ c_failed = <<>>

\* net_server::net_server(io_context, port, ...)
net_server_ctor(port) ==
  /\ listen_port = 0
  /\ port_arg = 0
  /\ port_arg' = port
  /\ listen_port' = acceptor_port(port)
  /\ accept_pending' = TRUE
  /\ UNCHANGED <<next_id_, connections_, obj, write_messages_, wr, rd, read_message_, ctx,
                 last, net_vars, cli_vars, hist_vars, codec_vars, mt_vars, ct_vars, c_failed,
                 more_vars>>

\* socket_.connect(endpoint) in net_client::connect: "ok", or the error it
\* throws as a boost::system::system_error
connect(port) == IF port = listen_port THEN "ok" ELSE "refused"

\* a net_client object whose constructor has come to the call of connect
constructing(port) ==
  [port |-> port, error |-> connect(port), threw |-> FALSE, rd |-> "none", deliv |-> <<>>]

\* net_client's constructor with connect's error swallowed: read_header()
\* is reached
ctor_ignores_error(client) == [client EXCEPT !.rd = "header"]

\* net_client's constructor from a connect that throws: the exception leaves
\* connect and the constructor, and read_header() is not reached
ctor_throws(client) == [client EXCEPT !.threw = TRUE]

\* a net_client is constructed with a port nobody listens on
connect_fails(port) ==
  /\ connect(port) # "ok"
  /\ Len(c_failed) < MaxConn
  /\ c_failed' = Append(c_failed, ctor_throws(constructing(port)))
  /\ UNCHANGED <<main_vars, codec_vars, mt_vars, ct_vars, port_arg, listen_port,
                 more_vars>>

\* the server process ends between two handlers (io_context_.stop(), or the
\* end of main): its sockets close, and its clients read what had been
\* written to them, then end of file
server_stops ==
  /\ ctx = Idle
  /\ listen_port # 0
  /\ listen_port' = 0
  /\ accept_pending' = FALSE
  /\ obj' = [i \in Ids |-> IF obj[i] = "live" THEN "destroyed" ELSE obj[i]]
  /\ write_messages_' = [i \in Ids |-> <<>>]
  /\ wr' = [i \in Ids |-> FALSE]
  /\ rd' = [i \in Ids |-> "none"]
  /\ read_message_' = [i \in Ids |-> empty_message]
  /\ sock' = [i \in Ids |-> IF sock[i] = "open" THEN "closed_s" ELSE sock[i]]
  /\ c2s' = [i \in Ids |-> <<>>]
  /\ UNCHANGED <<next_id_, connections_, ctx, last, s2c, cli_vars, hist_vars, codec_vars,
                 mt_vars, ct_vars, port_arg, c_failed, more_vars>>

\* connection i is lost with the client still running: it is reset
\* (kind = "reset") or fails in another way (kind = "broken"), what was in
\* flight is lost and every later read and write on it ends with that error,
\* at either end
link_fails(i, kind) ==
  /\ c_alive[i]
  /\ sock[i] = "open"
  /\ Events < MaxEvents
  /\ nfault' = nfault + 1
  /\ sock' = [sock EXCEPT ![i] = kind]
  /\ s2c' = [s2c EXCEPT ![i] = <<>>]
  /\ c2s' = [c2s EXCEPT ![i] = <<>>]
  /\ UNCHANGED <<srv_vars, cli_vars, assigned, enq, wrote, deliv, c_enq, c_wrote, s_deliv,
                 ncb, rd_failed, c_rd_failed, nsend, aux_vars>>

\* ---------------------------------------------------------------- accept errors
MaxAcceptErrors == 2  \* async_accept operations that end with an error over the run

InitAccept == accept_failed = 0

\* a handler of async_accept that calls start_accept() only after a
\* successful accept
loop_ends == FALSE

\* whether an async_accept is outstanding when the handler of a failed one
\* returns: start_accept() comes after the if (!ec) block, whatever ec is
rearmed == TRUE

\* the handler of async_accept, with an error: the if (!ec) block is skipped
accept_fails ==
  /\ ctx = Idle
  /\ accept_pending
  /\ accept_failed < MaxAcceptErrors
  /\ accept_failed' = accept_failed + 1
  /\ accept_pending' = rearmed
  /\ UNCHANGED <<next_id_, connections_, obj, write_messages_, wr, rd, read_message_, ctx,
                 last, net_vars, cli_vars, hist_vars, codec_vars, mt_vars, ct_vars, port_vars,
                 copy_vars, wr_failed, do_writes, chat_vars, c4_vars>>

\* ---------------------------------------------------------------- chat_server
MaxClients == 3       \* connections the chat server accepts over the run

\* MAX_NAME_LENGTH of chat_constants.hpp; client::name has room for that
\* many characters and the terminator, and the default names fit in it
MAX_NAME_LENGTH == 8

ChatIds == 0 .. (MaxClients - 1)

isalpha(c) == c \in 65 .. 90 \/ c \in 97 .. 122

\* sprintf(name, "Client%u", id_): the characters of "Client", then the id
default_name(id) == <<67, 108, 105, 101, 110, 116>> \o Decimal(id)

\* client::client(int id)
client(id) == [id_ |-> id, name |-> default_name(id)]

\* the names the clients ask for in #name requests: the default names, the
\* empty name, "a", "a!" and a name of MAX_NAME_LENGTH + 1 letters
RequestedNames ==
  {default_name(i) : i \in ChatIds}
    \cup {<<>>, <<97>>, <<97, 33>>, [j \in 1 .. (MAX_NAME_LENGTH + 1) |-> 97]}

\* the texts of the frames the chat server sends
Reply(op, to, text) == [op |-> op, to |-> to, text |-> text]

InitChat ==
  /\ clients_ = <<>>
  /\ chat_next = 0
  /\ chat_out = <<>>

chat_rest == <<main_vars, codec_vars, mt_vars, ct_vars, port_vars, copy_vars, wr_failed,
               do_writes, accept_vars, c4_vars>>

\* chat_server::handle_accept(client_id, true)
chat_connect ==
  /\ chat_next < MaxClients
  /\ clients_' = Append(clients_, client(chat_next))
  /\ chat_out' = <<Reply("send_to_all_except", chat_next, "connected")>>
  /\ chat_next' = chat_next + 1
  /\ UNCHANGED chat_rest

\* clients_.remove_if(...) with the frame sent for every client removed
chat_disconnect(client_id) ==
  /\ \E k \in 1 .. Len(clients_) : clients_[k].id_ = client_id
  /\ clients_' = SelectSeq(clients_, LAMBDA c : c.id_ # client_id)
  /\ chat_out' = [k \in 1 .. Cardinality({j \in 1 .. Len(clients_) :
                                             clients_[j].id_ = client_id}) |->
                    Reply("send_to_all", client_id, "disconnected")]
  /\ UNCHANGED chat_next
  /\ UNCHANGED chat_rest

\* the first loop of the #name branch: a character that is neither a letter
\* nor a digit
not_alphanumeric(name) == \E k \in 1 .. Len(name) : ~isalpha(name[k]) /\ ~isdigit(name[k])

\* the second loop of the #name branch: strcmp finds the name in clients_
in_use(name) == \E k \in 1 .. Len(clients_) : clients_[k].name = name

\* the third loop of the #name branch: the first client with the sender's
\* id gets the name
set_name(list, sender, name) ==
  LET hits == {k \in 1 .. Len(list) : list[k].id_ = sender}
  IN IF hits = {}
     THEN list
     ELSE LET first == CHOOSE k \in hits : \A j \in hits : k <= j
          IN [list EXCEPT ![first].name = name]

\* chat_server::handle_read(sender, "#name <name>", length)
chat_name(sender, name) ==
  /\ \E k \in 1 .. Len(clients_) : clients_[k].id_ = sender
  /\ IF Len(name) = 0
     THEN /\ chat_out' = <<Reply("send_to", sender, "empty")>>
          /\ UNCHANGED clients_
     ELSE IF Len(name) > MAX_NAME_LENGTH
     THEN /\ chat_out' = <<Reply("send_to", sender, "too long")>>
          /\ UNCHANGED clients_
     ELSE LET name_valid == ~not_alphanumeric(name) /\ ~in_use(name)
          IN /\ clients_' = IF name_valid THEN set_name(clients_, sender, name) ELSE clients_
             /\ chat_out' =
                  (IF not_alphanumeric(name)
                   THEN <<Reply("send_to", sender, "letters and numbers")>> ELSE <<>>)
                  \o (IF in_use(name)
                      THEN <<Reply("send_to", sender, "in use")>> ELSE <<>>)
                  \o (IF name_valid
                      THEN <<Reply("send_to_all", sender, "changed")>> ELSE <<>>)
  /\ UNCHANGED chat_next
  /\ UNCHANGED chat_rest

\* ---------------------------------------------------------------- connect4_server
MaxPlayers == 4       \* connections the connect-4 server accepts over the run

PlayerIds == 0 .. (MaxPlayers - 1)

\* the values a bool that was never written can be read as
Indeterminate == BOOLEAN

\* player::player(std::size_t id): id_(id), in_game left unwritten
player(id, garbage) == [id_ |-> id, in_game |-> garbage]

\* the position of the player with the id in the list, 0 when there is none
Position(list, id) ==
  LET hits == {k \in 1 .. Len(list) : list[k].id_ = id}
  IN IF hits = {} THEN 0 ELSE CHOOSE k \in hits : \A j \in hits : k <= j

\* for (auto& player_ : players_) if (!player_.in_game): the position of
\* the first player not marked in a game, leaving out the id skip; 0 when
\* the loop finds none
first_available(list, skip) ==
  LET hits == {k \in 1 .. Len(list) : list[k].id_ # skip /\ ~list[k].in_game}
  IN IF hits = {} THEN 0 ELSE CHOOSE k \in hits : \A j \in hits : k <= j

\* the loop over games_ of the disconnect branch: the position of the first
\* game one of whose players has the id, 0 when there is none
first_game_of(list, id) ==
  LET hits == {i \in 1 .. Len(list) : list[i][1] = id \/ list[i][2] = id}
  IN IF hits = {} THEN 0 ELSE CHOOSE i \in hits : \A j \in hits : i <= j

\* the other player of a game
opponent(g, id) == IF g[1] = id THEN g[2] ELSE g[1]

Erase(list, k) == [j \in 1 .. (Len(list) - 1) |-> IF j < k THEN list[j] ELSE list[j + 1]]

Mark(list, id, flag) ==
  [k \in 1 .. Len(list) |-> IF list[k].id_ = id THEN [list[k] EXCEPT !.in_game = flag]
                                                  ELSE list[k]]

Frame(to, text) == [to |-> to, text |-> text]

\* game::start: the two #start frames
game_start(g) == <<Frame(g[1], "#start 1"), Frame(g[2], "#start 2")>>

InitConnect4 ==
  /\ players_ = <<>>
  /\ games_ = <<>>
  /\ c4_next = 0
  /\ c4_call = [connect |-> FALSE, id |-> NullPtr]
  /\ c4_out = <<>>
  /\ c4_process = "running"

c4_rest == <<main_vars, codec_vars, mt_vars, ct_vars, port_vars, copy_vars, wr_failed,
             do_writes, accept_vars, chat_vars>>

\* connect4_server::handle_accept(client_id, true)
c4_connect ==
  /\ c4_process # "crashed"
  /\ c4_next < MaxPlayers
  /\ LET client_id == c4_next
         k == first_available(players_, NullPtr)
     IN IF k # 0
        THEN LET new_game == <<players_[k].id_, client_id>>
             IN /\ players_' = Mark(Append(players_, player(client_id, TRUE)),
                                    players_[k].id_, TRUE)
                /\ games_' = Append(games_, new_game)
                /\ c4_out' = game_start(new_game)
                               \o <<Frame(client_id, "begun"), Frame(players_[k].id_, "begun")>>
        ELSE /\ \E garbage \in Indeterminate :
                  players_' = Append(players_, player(client_id, garbage))
             /\ c4_out' = <<Frame(client_id, "no players available")>>
             /\ UNCHANGED games_
  /\ c4_call' = [connect |-> TRUE, id |-> c4_next]
  /\ c4_next' = c4_next + 1
  /\ UNCHANGED c4_process
  /\ UNCHANGED c4_rest

\* the opponent of a player that disconnects, left marked as it was
left_in_game(list, other) == list

\* other_player->in_game = false
put_back(list, other) == Mark(list, other, FALSE)

\* the second loop of the disconnect branch with an opponent: the first
\* other player not marked in a game starts a game with the opponent
pair_again(list, games, out, other_player) ==
  LET k == first_available(list, other_player)
  IN IF k # 0
     THEN LET new_game == <<list[k].id_, other_player>>
          IN /\ players_' = Mark(Mark(list, list[k].id_, TRUE), other_player, TRUE)
             /\ games_' = Append(games, new_game)
             /\ c4_out' = out \o game_start(new_game)
     ELSE /\ players_' = list
          /\ games_' = games
          /\ c4_out' = out

\* the second loop of the disconnect branch with other_player == nullptr:
\* nothing happens when no player is left; otherwise other_player->get_id()
\* reads through the null pointer. The process ends there, or the read
\* yields some value and the loop goes on to the first player with another
\* id that is not marked in a game, where other_player->in_game = true
\* writes through the null pointer and ends the process; with no such
\* player the handler returns.
pair_again_null(list, games, out) ==
  /\ players_' = list
  /\ games_' = games
  /\ c4_out' = out
  /\ IF list = <<>>
     THEN UNCHANGED c4_process
     ELSE \/ c4_process' = "crashed"
          \/ \E read \in PlayerIds \cup {NullPtr} :
               c4_process' = IF first_available(list, read) # 0
                             THEN "crashed" ELSE "null read"

\* connect4_server::handle_accept(client_id, false), for a client that is
\* in players_
c4_disconnect(client_id) ==
  /\ c4_process # "crashed"
  /\ Position(players_, client_id) # 0
  /\ LET it == Position(players_, client_id)
         i == IF players_[it].in_game THEN first_game_of(games_, client_id) ELSE 0
         other_player == IF i # 0 THEN opponent(games_[i], client_id) ELSE NullPtr
     IN IF other_player # NullPtr
        THEN /\ pair_again(Erase(put_back(players_, other_player), it), Erase(games_, i),
                           <<Frame(other_player, "#endgame"),
                             Frame(other_player, "opponent has disconnected")>>,
                           other_player)
             /\ UNCHANGED c4_process
        ELSE pair_again_null(Erase(players_, it), games_, <<>>)
  /\ c4_call' = [connect |-> FALSE, id |-> client_id]
  /\ UNCHANGED c4_next
  /\ UNCHANGED c4_rest

\* ---------------------------------------------------------------- the parts
InitParts == InitAccept /\ InitChat /\ InitConnect4

\* ---------------------------------------------------------------- environment
\* what is left of a client once its process has ended
ClientGone(i) ==
  /\ c_alive' = [c_alive EXCEPT ![i] = FALSE]
  /\ c_write_messages_' = [c_write_messages_ EXCEPT ![i] = <<>>]
  /\ c_wr' = [c_wr EXCEPT ![i] = FALSE]
  /\ c_rd' = [c_rd EXCEPT ![i] = "none"]
  /\ c_read_message_' = [c_read_message_ EXCEPT ![i] = empty_message]
  /\ s2c' = [s2c EXCEPT ![i] = <<>>]

\* the client process ends and its socket closes: the server reads what was
\* written, then end of file
client_exit(i) ==
  /\ c_alive[i]
  /\ ClientGone(i)
  /\ sock' = [sock EXCEPT ![i] = IF @ = "open" THEN "closed_c" ELSE @]
  /\ UNCHANGED <<srv_vars, c2s, hist_vars>>
  /\ UNCHANGED aux_vars

\* the client process ends in the middle of a write: the header of the
\* frame went out, its body did not
client_killed(i) ==
  /\ c_alive[i]
  /\ c_wr[i]
  /\ sock[i] = "open"
  /\ obj[i] = "live"
  /\ ClientGone(i)
  /\ c2s' = [c2s EXCEPT ![i] = Append(@, HdrItem(Head(c_write_messages_[i])))]
  /\ sock' = [sock EXCEPT ![i] = "closed_c"]
  /\ Events < MaxEvents
  /\ nfault' = nfault + 1
  /\ UNCHANGED srv_vars
  /\ UNCHANGED <<assigned, enq, wrote, deliv, c_enq, c_wrote, s_deliv, ncb, rd_failed,
                 c_rd_failed, nsend>>
  /\ UNCHANGED aux_vars

\* the client's host is lost: the connection is reset (kind = "reset") or
\* fails in another way, such as a timeout (kind = "broken"); what was in
\* flight is lost and every later read and write of the server on it ends
\* with that error
connection_fails(i, kind) ==
  /\ c_alive[i]
  /\ sock[i] = "open"
  /\ ClientGone(i)
  /\ sock' = [sock EXCEPT ![i] = kind]
  /\ c2s' = [c2s EXCEPT ![i] = <<>>]
  /\ Events < MaxEvents
  /\ nfault' = nfault + 1
  /\ UNCHANGED srv_vars
  /\ UNCHANGED <<assigned, enq, wrote, deliv, c_enq, c_wrote, s_deliv, ncb, rd_failed,
                 c_rd_failed, nsend>>
  /\ UNCHANGED aux_vars

\* ---------------------------------------------------------------- specification
\* the server constructed and listening, no client yet
Init ==
  /\ InitMain
  /\ InitCodec
  /\ InitThreads
  /\ InitClientThreads
  /\ InitPorts
  /\ InitCopy
  /\ InitParts

Next ==
  \/ handle_accept
  \/ accept_return
  \/ \E id \in ArgIds, body \in Bodies : send_to(id, body)
  \/ \E body \in Bodies : send_to_all(body)
  \/ \E id \in ArgIds, body \in Bodies : send_to_all_except(id, body)
  \/ \E i \in Ids : WriteComplete(i)
  \/ \E i \in Ids : WriteAborted(i)
  \/ \E i \in Ids : handle_read_header(i)
  \/ \E i \in Ids : handle_read_body(i)
  \/ read_handler_return
  \/ disconnect_return
  \/ \E i \in Ids, body \in Bodies : c_send(i, body)
  \/ \E i \in Ids : c_write_complete(i)
  \/ \E i \in Ids : c_handle_read_header(i)
  \/ \E i \in Ids : c_handle_read_body(i)
  \/ \E i \in Ids : client_exit(i)
  \/ \E i \in Ids : client_killed(i)
  \/ \E i \in Ids, kind \in {"reset", "broken"} : connection_fails(i, kind)

Spec == Init /\ [][Next]_vars

\* the server with its handlers on NThreads threads
NextThreads ==
  \/ \E t \in Threads : AcceptBegins(t)
  \/ \E t \in Threads, i \in Ids : DisconnectBegins(t, i)
  \/ \E t \in Threads, i \in Ids : MessageArrives(t, i)
  \/ \E t \in Threads : Lock(t)
  \/ \E t \in Threads : Insert(t)
  \/ \E t \in Threads : Remove(t)
  \/ \E t \in Threads : Unlock(t)
  \/ \E t \in Threads : Start(t)
  \/ \E t \in Threads, op \in {"send_to", "send_to_all", "send_to_all_except"},
        arg \in ArgIds, body \in Bodies : TraverseBegins(t, op, arg, body)
  \/ \E t \in Threads : TraverseStep(t)
  \/ \E t \in Threads : TraverseEnds(t)
  \/ \E t \in Threads : HandlerEnds(t)

SpecThreads == Init /\ [][NextThreads]_vars

\* the client with send on the application's thread
NextClientThreads ==
  \/ handle_accept
  \/ accept_return
  \/ \E i \in Ids : WriteComplete(i)
  \/ \E i \in Ids : ClientReads(i)
  \/ \E body \in Bodies : SendTestsQueue(body)
  \/ SendEmplaces
  \/ SendWrites
  \/ CompletionPops
  \/ CompletionWrites

SpecClientThreads == Init /\ [][NextClientThreads]_vars

\* the server and clients that only listen, and stay up while their server
\* or their connection goes away
NextClient ==
  \/ handle_accept
  \/ accept_return
  \/ \E id \in ArgIds, body \in Bodies : send_to(id, body)
  \/ \E body \in Bodies : send_to_all(body)
  \/ \E id \in ArgIds, body \in Bodies : send_to_all_except(id, body)
  \/ \E i \in Ids : WriteComplete(i)
  \/ \E i \in Ids : WriteAborted(i)
  \/ \E i \in Ids : handle_read_header(i)
  \/ disconnect_return
  \/ \E i \in Ids : c_handle_read_header(i)
  \/ \E i \in Ids : c_handle_read_body(i)
  \/ server_stops
  \/ \E i \in Ids, kind \in {"reset", "broken"} : link_fails(i, kind)

SpecClient == Init /\ [][NextClient]_vars

\* the construction of the server with every port, and the clients that
\* then connect to every port
InitListen ==
  /\ InitUnbuilt
  /\ InitCodec
  /\ InitThreads
  /\ InitClientThreads
  /\ InitCopy
  /\ InitParts

NextListen ==
  \/ \E port \in Ports : net_server_ctor(port)
  \/ handle_accept
  \/ accept_return
  \/ \E port \in Ports : connect_fails(port)

SpecListen == InitListen /\ [][NextListen]_vars

\* the accept loop with accepts that fail, and connections that come and go
NextAccept ==
  \/ handle_accept
  \/ accept_return
  \/ accept_fails
  \/ \E i \in Ids : WriteComplete(i)
  \/ \E i \in Ids : WriteAborted(i)
  \/ \E i \in Ids : handle_read_header(i)
  \/ disconnect_return
  \/ \E i \in Ids : client_exit(i)

SpecAccept == Init /\ [][NextAccept]_vars

\* the chat server under connects, #name requests and disconnects
NextChat ==
  \/ chat_connect
  \/ \E i \in ChatIds : chat_disconnect(i)
  \/ \E i \in ChatIds, name \in RequestedNames : chat_name(i, name)

SpecChat == Init /\ [][NextChat]_vars

\* the connect-4 server under connects and disconnects
NextConnect4 ==
  \/ c4_connect
  \/ \E i \in PlayerIds : c4_disconnect(i)

SpecConnect4 == Init /\ [][NextConnect4]_vars

\* the frames of broadcasts, as objects
NextCopy ==
  \/ \E body \in CopyBodies : BroadcastBegins(body)
  \/ SendEnters
  \/ SendPushes
  \/ SendReturns
  \/ BroadcastReturns
  \/ \E body \in CopyBodies : CallerReuses(body)
  \/ \E c \in Queues : FrameWritten(c)

SpecCopy == Init /\ [][NextCopy]_vars

\* the net_message object by itself: what its constructor and decode_header
\* make of every body and of every header, and what copying and assigning
\* make of every frame that fits
NextCodec ==
  \/ \E body \in TestBodies : Construct(body)
  \/ \E hdr \in [1 .. header_length -> HeaderChars] : ReceiveHeader(hdr)
  \/ DecodeHeader
  \/ CopyConstruct
  \/ \E target \in Targets : Assign(target)

SpecCodec == Init /\ [][NextCodec]_vars

\* ---------------------------------------------------------------- properties
\* the queues as the latest send_* call found them, with msg appended for
\* each connection of targets
QueuesAfter(targets, body) ==
  [i \in Ids |-> IF i \in targets
                 THEN Append(last.pre[i], net_message(body))
                 ELSE last.pre[i]]

InCall(op) == ctx # Idle /\ last.call.op = op

\* C1: on every connection the frames are written in the order they were
\* enqueued and the peer's message callback receives their bodies in that
\* order, in both directions.
C1_FifoDelivery ==
  \A i \in Ids :
    /\ IsPrefix(wrote[i], enq[i])
    /\ IsPrefix(deliv[i], enq[i])
    /\ IsPrefix(c_wrote[i], c_enq[i])
    /\ IsPrefix(s_deliv[i], c_enq[i])

\* What does hold of the order of frames: the writes follow the queue, the
\* client's callback follows the writes, and the server's callback follows
\* the client's writes on every connection whose reads have all succeeded.
FifoWhileReadsSucceed ==
  \A i \in Ids :
    /\ IsPrefix(wrote[i], enq[i])
    /\ IsPrefix(deliv[i], wrote[i])
    /\ IsPrefix(c_wrote[i], c_enq[i])
    /\ rd_failed[i] = "no" => IsPrefix(s_deliv[i], c_wrote[i])

\* C2: send_to with an id that no registered connection has reports
\* not-found and leaves every outbound queue as it was.
C2_SendToAbsent ==
  InCall("send_to") /\ last.call.id \notin Range(last.reg)
    => last.call.notfound /\ write_messages_ = last.pre

\* C3: send_to with the id of a registered connection appends one frame with
\* the body to that connection's queue and changes no other queue.
C3_SendToOne ==
  InCall("send_to") /\ last.call.id \in Range(last.reg)
    => /\ ~last.call.notfound
       /\ write_messages_ = QueuesAfter({last.call.id}, last.call.body)

C3_Witness ==
  /\ InCall("send_to")
  /\ last.call.id = 0
  /\ last.reg = <<0, 1>>
  /\ write_messages_[0] # last.pre[0]

\* C4: send_to_all appends one frame with the body to the queue of every
\* connection registered at the call, and one only.
C4_SendToAll ==
  InCall("send_to_all")
    => write_messages_ = QueuesAfter(Range(last.reg), last.call.body)

C4_Witness ==
  /\ InCall("send_to_all")
  /\ Len(last.reg) = 2
  /\ \A i \in Ids : Len(write_messages_[i]) = Len(last.pre[i]) + 1

\* C5: send_to_all_except(X) appends one frame to the queue of every
\* registered connection other than X and leaves X's queue as it was; with X
\* not registered that is every registered connection, as send_to_all.
C5_SendToAllExcept ==
  InCall("send_to_all_except")
    => write_messages_ = QueuesAfter(Range(last.reg) \ {last.call.id}, last.call.body)

C5_Witness ==
  /\ InCall("send_to_all_except")
  /\ last.reg = <<0, 1>>
  /\ last.call.id = 1
  /\ write_messages_[1] = last.pre[1]
  /\ write_messages_[0] # last.pre[0]

C5_WitnessUnregistered ==
  /\ InCall("send_to_all_except")
  /\ last.reg # <<>>
  /\ last.call.id \notin Range(last.reg)
  /\ \A i \in Range(last.reg) : write_messages_[i] # last.pre[i]

\* C6: the disconnect callback fires at most once for a server connection,
\* and once a read of the connection has ended with EOF or connection-reset no
\* read is issued on it any more.
C6_PeerClosed ==
  \A i \in Ids :
    /\ ncb[i].disconnect <= 1
    /\ rd_failed[i] \in {"eof", "reset"} => rd[i] = "none"

\* C7: a lost connection is out of the registry when its disconnect callback
\* runs, and no send_to_all or send_to_all_except made in that callback or
\* later puts a frame on its queue.
C7_RemovedBeforeCallback ==
  \A i \in Ids :
    ncb[i].disconnect > 0
      => /\ i \notin Range(connections_)
         /\ InCall("send_to_all") \/ InCall("send_to_all_except")
              => i \notin Range(last.reg) /\ write_messages_[i] = last.pre[i]

C7_Witness ==
  /\ ctx.kind = "accept_handler"
  /\ ~ctx.connect
  /\ InCall("send_to_all")
  /\ write_messages_[ctx.id] # <<>>
  /\ \E j \in Ids : write_messages_[j] # last.pre[j]

\* C8: a read of a server connection that fails with another error than EOF
\* or connection-reset takes the connection out of the registry, fires the
\* disconnect callback and leaves no read outstanding.
C8_OtherReadError ==
  \A i \in Ids :
    rd_failed[i] = "other"
      => /\ i \notin Range(connections_)
         /\ ncb[i].disconnect = 1
         /\ rd[i] = "none"

\* C9: the ids assigned on accept are 0, 1, 2, ... in this order, so none is
\* assigned twice, whatever disconnects happen in between.
C9_IdsIncrease ==
  \A k \in 1 .. Len(assigned) : assigned[k] = k - 1

C9_Witness ==
  /\ Len(assigned) = 2
  /\ ctx = [kind |-> "accept_handler", id |-> 1, connect |-> TRUE]
  /\ ncb[0].disconnect = 1

\* C10: when the connect callback runs for a connection, the connection is in
\* the registry, its welcome frame is enqueued and being written and its
\* first header read is outstanding; no connect callback precedes these.
C10_AcceptOrder ==
  /\ ctx.kind = "accept_handler" /\ ctx.connect
       => /\ ctx.id \in Range(connections_)
          /\ obj[ctx.id] = "live"
          /\ write_messages_[ctx.id] # <<>>
          /\ Head(write_messages_[ctx.id]) = net_message(first_message)
          /\ wr[ctx.id]
          /\ rd[ctx.id] = "header"
  /\ \A i \in Ids :
       ncb[i].connect > 0
         => /\ ncb[i].connect = 1
            /\ i \in Range(assigned)
            /\ enq[i] # <<>>
            /\ Head(enq[i]) = first_message

C10_Witness ==
  /\ ctx = [kind |-> "accept_handler", id |-> 1, connect |-> TRUE]
  /\ last.call.op = "send_to"

\* C11: a frame built from a body of 0 .. max_body_length bytes decodes to
\* the length of the body, and its body bytes are those of the body.
C11_RoundTrip ==
  nm_op.op = "decode_header" /\ nm_op.on = "net_message"
      /\ Len(nm_op.body) <= max_body_length
    => /\ nm.body_length_ = Len(nm_op.body)
       /\ get_body(nm, Len(nm_op.body)) = nm_op.body

\* What does hold of the round trip: it is exact whenever the byte behind
\* decode_header's copy of the header is no digit.
RoundTripWhenTerminated ==
  nm_op.op = "decode_header" /\ nm_op.on = "net_message"
      /\ Len(nm_op.body) <= max_body_length /\ nm_op.tail = <<>>
    => /\ nm.body_length_ = Len(nm_op.body)
       /\ get_body(nm, Len(nm_op.body)) = nm_op.body

\* C12: the frame built from a body holds 4 header characters that declare
\* its stored body length, which is the length of the body cut to
\* max_body_length, and its body bytes are the first that many of the body.
C12_Truncates ==
  nm_op.op = "net_message"
    => LET n == IF Len(nm_op.body) <= max_body_length
                THEN Len(nm_op.body) ELSE max_body_length
       IN /\ nm.body_length_ = n
          /\ nm.body_length_ <= max_body_length
          /\ \A k \in 1 .. header_length : byte(nm, k) = 32 \/ isdigit(byte(nm, k))
          /\ atoi(get_header(nm) \o <<0>>) = nm.body_length_
          /\ get_body(nm, n) = SubSeq(nm_op.body, 1, n)

\* What does hold of the constructor: bodies of up to max_body_length bytes
\* are framed exactly.
FramesBodiesThatFit ==
  nm_op.op = "net_message" /\ Len(nm_op.body) <= max_body_length
    => /\ nm.body_length_ = Len(nm_op.body)
       /\ atoi(get_header(nm) \o <<0>>) = nm.body_length_
       /\ get_body(nm, nm.body_length_) = nm_op.body
       /\ nm.past_end = <<>>

\* C13: after decode_header the body length is within 0 .. max_body_length,
\* whatever the 4 header bytes are, so the body read that follows asks for no
\* more than max_body_length bytes.
C13_DecodedLengthBounded ==
  nm_op.op = "decode_header" => nm.body_length_ \in 0 .. max_body_length

\* a thread is changing connections_, or is walking over it
Mutating(t) == thr[t].pc \in {"inserting", "removing"}
Traversing(t) == thr[t].pc = "traversing"

\* C14: a thread that changes connections_ (insert on accept, remove on
\* disconnect) or walks over it (send_to's lookup, the loops of send_to_all
\* and send_to_all_except) holds connections_mutex_ while it does, so no walk
\* on one thread overlaps a change on another.
C14_RegistryLocked ==
  /\ \A t \in Threads : Mutating(t) \/ Traversing(t) => connections_mutex_ = t
  /\ \A t, u \in Threads : ~(Traversing(t) /\ Mutating(u))

\* What does hold of the mutex: every change of connections_ is made by the
\* thread that holds it.
MutationsHoldMutex ==
  \A t \in Threads : Mutating(t) => connections_mutex_ = t

\* What the missing lock of the walks leads to; neither of these two holds.
\* A walk on one thread overlaps a change on another,
NoTraversalDuringMutation ==
  \A t, u \in Threads : ~(Traversing(t) /\ Mutating(u))

\* and a walk goes on from a node that was erased under it.
NoErasedNodeUsed == Running

\* C15: with send on the application's thread and the completion handlers
\* on the I/O thread, at most one write is in flight on the client's socket.
C15_OneWriteInFlight == Len(c_inflight) <= 1

\* What the unsynchronised queue leads to besides; neither of these holds.
\* A frame lies in the queue with no write in flight and neither thread about
\* to start one,
NoStalledFrame ==
  ~(/\ c_write_messages_[0] # <<>>
    /\ c_inflight = <<>>
    /\ app_thread.pc = "idle"
    /\ io_thread = "idle")

\* and a completion handler pops an empty queue.
NoPopOfEmptyQueue == ClientRunning

\* C16: on the client a read error ends the read loop: from the first failed
\* read on no read is outstanding and the message callback is not invoked.
C16_ReadErrorEndsLoop ==
  [][\A i \in Ids :
       c_rd_failed'[i] # "no" => c_rd'[i] = "none" /\ deliv'[i] = deliv[i]]_vars

\* the two halves of it, in states: a read is outstanding after a failed
\* one, and the callback has been given more bodies than frames were written
NoReadAfterClientReadError ==
  \A i \in Ids : c_rd_failed[i] # "no" => c_rd[i] = "none"

NoCallbackAfterClientReadError ==
  \A i \in Ids : c_rd_failed[i] # "no" => Len(deliv[i]) <= Len(wrote[i])

\* C17: the client's message callback is invoked once per frame received, in
\* wire order, with the body of that frame. (The callback and the next
\* read_header() are consecutive statements of handle_read_body, one step
\* here.)
C17_OncePerFrameInOrder ==
  \A i \in Ids : IsPrefix(deliv[i], wrote[i])

\* What does hold: it is so as long as no read of the client has failed, and
\* then a client waiting for a header with nothing in flight has been given
\* every frame written.
OncePerFrameWhileReadsSucceed ==
  \A i \in Ids :
    c_rd_failed[i] = "no"
      => /\ IsPrefix(deliv[i], wrote[i])
         /\ c_rd[i] = "header" /\ s2c[i] = <<>> /\ sock[i] \in {"open", "closed_s"}
              => deliv[i] = wrote[i]

\* C18: a net_client whose connect fails is not constructed: the error is
\* thrown to the caller, no read is issued and the callback is not invoked.
C18_ConnectFailure ==
  \A k \in 1 .. Len(c_failed) :
    c_failed[k].error # "ok"
      => /\ c_failed[k].threw
         /\ c_failed[k].rd = "none"
         /\ c_failed[k].deliv = <<>>

C18_Witness ==
  /\ listen_port = DefaultPort
  /\ Len(assigned) = 1
  /\ c_failed # <<>>
  /\ c_failed[1].port # listen_port
  /\ c_failed[1].error = "refused"

\* C19: a write error on a server connection removes the connection from the
\* registry and fires its disconnect callback. (A queue that is not empty
\* with no write outstanding is what a failed write leaves.)
C19_WriteErrorTearsDown ==
  \A i \in Ids :
    obj[i] = "live" /\ write_messages_[i] # <<>> /\ ~wr[i]
      => /\ i \notin Range(connections_)
         /\ ncb[i].disconnect = 1

\* the same, once every read of the connection has failed as well and no
\* handler is running: the connection whose socket fails with another error
\* than EOF or connection-reset stays registered for good
WriteErrorTearsDownAtLast ==
  \A i \in Ids :
    /\ obj[i] = "live" /\ write_messages_[i] # <<>> /\ ~wr[i]
    /\ rd_failed[i] # "no" /\ Len(s_deliv[i]) = MaxDeliv /\ ctx = Idle
    => i \notin Range(connections_)

\* C20: the server listens on the port given to its constructor.
C20_ListensOnGivenPort ==
  listen_port # 0 => listen_port = port_arg

\* What does hold: it listens on DefaultPort, which is the port every
\* application of the repository gives.
ListensOnDefaultPort ==
  listen_port # 0 => listen_port = DefaultPort

\* the frame in a is the frame in b: length, header bytes and body bytes
SameFrame(a, b) ==
  /\ a.body_length_ = b.body_length_
  /\ get_header(a) = get_header(b)
  /\ get_body(a, a.body_length_) = get_body(b, b.body_length_)

\* C22: after operator= the target holds the source's frame, as after copy
\* construction, for every source with a body of 0 to max_body_length bytes.
C22_AssignLikeCopy ==
  nm_op.op = "operator=" => SameFrame(nm2, nm)

\* What does hold: the copy constructor gives the source's frame, and
\* operator= gives the source's length and the first body_length_ bytes of
\* its data_, which are the header and all but the last header_length bytes
\* of the body.
CopyConstructedSame ==
  nm_op.op = "copy" => SameFrame(nm2, nm)

AssignCopiesLengthBytes ==
  nm_op.op = "operator="
    => /\ nm2.body_length_ = nm.body_length_
       /\ \A k \in 1 .. nm.body_length_ : byte(nm2, k) = byte(nm, k)

\* the frames with the bodies sent to connection c that are not written yet
Unwritten(c) == SubSeq(sent[c], Len(wire[c]) + 1, Len(sent[c]))

\* C21: every frame queued by a broadcast is an object of its own, alive and
\* holding the header and body it was enqueued with until its write has
\* completed, and what a write puts on the wire is that header and body.
C21_DeepCopies ==
  /\ \A c \in Queues :
       /\ Len(queue_[c]) = Len(Unwritten(c))
       /\ \A k \in 1 .. Len(queue_[c]) :
            /\ objects[queue_[c][k]].live
            /\ objects[queue_[c][k]].m \in net_message_bytes(Unwritten(c)[k])
            /\ queue_[c][k] \notin {bcast.msg, bcast.arg}
       /\ \A k \in 1 .. Len(wire[c]) :
            wire[c][k] = sprintf_4d(Len(sent[c][k])) \o sent[c][k]
  /\ \A c, d \in Queues : \A k \in 1 .. Len(queue_[c]), l \in 1 .. Len(queue_[d]) :
       queue_[c][k] = queue_[d][l] => c = d /\ k = l

\* a frame is still queued on one connection after its copy on the other
\* has been written and popped, send_to_all has returned, msg is gone and
\* the application's buffer holds something else
C21_Witness ==
  /\ bcast.pc = "idle"
  /\ Len(sent[1]) = 1
  /\ wire[1] # <<>>
  /\ queue_[2] # <<>>
  /\ caller_buf # sent[2][1]
  /\ ~objects[1].live

\* C23: with send on the application's thread and the completion handlers
\* on the I/O thread, every write succeeding, no frame is left in the queue
\* with no write in flight: once both threads are at rest and no write is
\* in flight, the queue is empty and the frames written are those passed to
\* send, in order.
C23_EveryFrameWritten ==
  app_thread.pc = "idle" /\ io_thread = "idle" /\ c_inflight = <<>>
    => /\ c_write_messages_[0] = <<>>
       /\ c_wrote[0] = c_enq[0]

\* What does hold: it is so as long as send has been called once, so that
\* no send ran while a completion handler did.
FirstFrameWritten ==
  /\ app_thread.pc = "idle" /\ io_thread = "idle" /\ c_inflight = <<>>
  /\ Len(c_enq[0]) <= 1
  => /\ c_write_messages_[0] = <<>>
     /\ c_wrote[0] = c_enq[0]

\* the bodies of the frames in a queue
RECURSIVE QueuedBodies(_)
QueuedBodies(q) == IF q = <<>> THEN <<>> ELSE <<Head(q).data>> \o QueuedBodies(Tail(q))

\* the writes of connection i in flight: those do_write() has started whose
\* completion handler has not run
InFlight(i) == do_writes[i] - (Len(wrote[i]) + Len(wr_failed[i]))

\* C24: on a server connection none of whose writes has failed, one write
\* at most is in flight, one is in flight exactly when the outbound queue
\* is not empty, and the frames written followed by the frames queued are
\* the frames enqueued, in order: every completed write has removed the
\* head, the frame it wrote.
C24_WriteLoop ==
  \A i \in Ids :
    obj[i] = "live" /\ wr_failed[i] = <<>>
      => /\ InFlight(i) <= 1
         /\ wr[i] <=> InFlight(i) = 1
         /\ wr[i] <=> write_messages_[i] # <<>>
         /\ wrote[i] \o QueuedBodies(write_messages_[i]) = enq[i]

\* a write has completed with a frame left in the queue, and the next write
\* is in flight
C24_Witness ==
  \E i \in Ids :
    /\ obj[i] = "live" /\ wr_failed[i] = <<>>
    /\ wrote[i] # <<>>
    /\ write_messages_[i] # <<>>
    /\ wr[i]

\* the steps of one connection's read loop: a header read is issued when
\* none is outstanding, it is followed by the body read or, at the peer's
\* close, by nothing, and the body read is followed by the dispatch
ReadLoopStep(i) ==
  \/ rd'[i] = rd[i]
  \/ rd[i] = "none" /\ rd'[i] = "header"
  \/ rd[i] = "header" /\ rd'[i] \in {"body", "none"}
  \/ rd[i] = "body" /\ rd'[i] = "none" /\ ctx'.kind = "read_handler" /\ ctx'.id = i

\* the message callback is running: it is for a live connection, no read of
\* that connection is outstanding, and the body it was given has the length
\* decode_header took from the header
AtDispatch ==
  ctx.kind = "read_handler"
    => /\ obj[ctx.id] = "live"
       /\ rd[ctx.id] = "none"
       /\ s_deliv[ctx.id] # <<>>
       /\ Len(s_deliv[ctx.id][Len(s_deliv[ctx.id])]) = read_message_[ctx.id].body_length_
       /\ read_message_[ctx.id].body_length_ \in Decoded(read_message_[ctx.id])

\* C25: a server connection has one read in flight at most, its read loop
\* goes header read, body read, dispatch, header read, and the message
\* callback, called with the connection's id and the decoded length, has
\* returned when the next header read is issued.
C25_ReadLoop ==
  /\ [](AtDispatch
        /\ \A i \in Ids : obj[i] = "live" /\ rd[i] = "none" => ctx.kind # "idle" /\ ctx.id = i)
  /\ [][\A i \in Ids : ReadLoopStep(i)]_vars

\* the callback runs for the second frame of a connection whose reads have
\* all succeeded
C25_Witness ==
  /\ ctx.kind = "read_handler"
  /\ Len(s_deliv[ctx.id]) = 2
  /\ rd_failed[ctx.id] = "no"
  /\ s_deliv[ctx.id] = c_wrote[ctx.id]

\* the step is the call of the message callback for connection i
Dispatches(i) ==
  /\ ctx.kind = "idle"
  /\ rd[i] = "body"
  /\ ctx'.kind = "read_handler"
  /\ ctx'.id = i

\* C26: the server's message callback is called only when the body read
\* has completed without error.
C26_CallbackOnlyOnSuccess ==
  [][\A i \in Ids :
       Dispatches(i) => ReadOutcomes(i, read_message_[i].body_length_) = {"ok"}]_vars

\* What does hold: the callback is not called for a connection whose reads
\* have ended with EOF or connection-reset in a header read.
NoCallbackAfterDisconnect ==
  \A i \in Ids : ncb[i].disconnect > 0 => ~(ctx.kind = "read_handler" /\ ctx.id = i)

\* C27: once a write of a server connection has failed, the failed frame
\* stays at the head of the queue and no write is in flight on the
\* connection any more; the frames sent to it later are queued behind it.
\* As long as its reads succeed the connection stays registered with its
\* read loop going.
C27_StalledAfterWriteError ==
  \A i \in Ids :
    obj[i] = "live" /\ wr_failed[i] # <<>>
      => /\ ~wr[i]
         /\ Len(wr_failed[i]) = 1
         /\ InFlight(i) = 0
         /\ write_messages_[i] # <<>>
         /\ Head(write_messages_[i]) = wr_failed[i][1]
         /\ wrote[i] \o QueuedBodies(write_messages_[i]) = enq[i]
         /\ rd_failed[i] = "no"
              => /\ i \in Range(connections_)
                 /\ rd[i] # "none" \/ (ctx.kind # "idle" /\ ctx.id = i)

\* a frame has been sent to a connection after one of its writes failed,
\* while a write of another connection is in flight
C27_Witness ==
  \E i, j \in Ids :
    /\ obj[i] = "live" /\ wr_failed[i] # <<>>
    /\ Len(write_messages_[i]) = 2
    /\ j # i /\ obj[j] = "live" /\ wr[j]

\* a completion handler of connection i runs in the step: the one of a
\* write, which ends the write in flight, or the one of a read
HandlerRuns(i) == (wr[i] /\ ~wr'[i]) \/ (rd[i] # "none" /\ rd'[i] # rd[i])

\* C28: no completion handler of a server connection runs once the
\* connection object has been destroyed.
C28_NoHandlerAfterDestruction ==
  [][\A i \in Ids : obj[i] = "destroyed" => ~HandlerRuns(i)]_vars

\* What does hold: the read handlers own the connection (shared_from_this),
\* so no read is outstanding on a destroyed connection; a write can be.
NoReadOnDestroyed ==
  \A i \in Ids : obj[i] = "destroyed" => rd[i] = "none"

NoWriteOnDestroyed ==
  \A i \in Ids : obj[i] = "destroyed" => ~wr[i]

\* C29: the connections of the registry are in strictly ascending order of
\* id in every state, whatever accepts and disconnects have happened.
C29_RegistryAscending ==
  \A k, l \in 1 .. Len(connections_) : k < l => connections_[k] < connections_[l]

\* two connections are registered, the second accepted after frames of
\* the first were dispatched
C29_Witness ==
  /\ Len(connections_) >= 2
  /\ ctx = Idle
  /\ s_deliv[Head(connections_)] # <<>>

\* C30: connections_mutex_ is held by no thread that starts a connection,
\* runs an application callback or is in a send_* call made from one: the
\* thread that holds it is inserting into connections_, removing from it or
\* about to unlock, so a thread waiting for it waits for none that waits.
C30_NoLockAcrossCallbacks ==
  \A t \in Threads :
    /\ thr[t].pc \in {"starting", "callback", "traversing"} => connections_mutex_ # t
    /\ connections_mutex_ = t => thr[t].pc \in {"inserting", "removing", "unlocking"}

\* a send_* call made from a callback goes on while another thread holds
\* the mutex
C30_Witness ==
  \E t, u \in Threads :
    /\ t # u
    /\ thr[t].pc = "traversing"
    /\ thr[t].it # ListEnd
    /\ connections_mutex_ = u

RECURSIVE ConnectCallbacks(_)
\* the connect callbacks made for the ids up to n
ConnectCallbacks(n) == IF n < 0 THEN 0 ELSE ncb[n].connect + ConnectCallbacks(n - 1)

\* the handler of a failed accept runs in the step
AcceptFailure == accept_failed' # accept_failed

\* C31: an async_accept is outstanding whenever no accept handler is
\* running, after failed accepts as after successful ones, and a failed
\* accept takes no id, adds nothing to the registry and calls no callback.
C31_AcceptLoop ==
  /\ [](/\ accept_pending <=> ~(ctx.kind = "accept_handler" /\ ctx.connect)
        /\ next_id_ = Len(assigned)
        /\ ConnectCallbacks(MaxConn - 1) = Len(assigned))
  /\ [][AcceptFailure
          => /\ accept_pending'
             /\ UNCHANGED <<next_id_, connections_, obj, ncb, ctx, assigned>>]_vars

\* an accept has succeeded after one that failed
C31_Witness ==
  /\ accept_failed > 0
  /\ assigned # <<>>
  /\ accept_pending

\* the ids whose connect callback has been called or is being called
Connected == {i \in Ids : ncb[i].connect > 0}

\* the ids whose disconnect path has run
Disconnected == {i \in Ids : ncb[i].disconnect > 0}

\* C33: the registry holds exactly the ids that were connected and have not
\* been disconnected, each of them once.
C33_RegistryIsConnectedMinusDisconnected ==
  /\ Range(connections_) = Connected \ Disconnected
  /\ Cardinality(Range(connections_)) = Len(connections_)

\* one connection is registered, another has gone through its disconnect path
C33_Witness ==
  /\ Len(connections_) = 1
  /\ Disconnected # {}
  /\ ctx = Idle

\* a callback of the application is called for connection i in the step
CallbackFor(i) ==
  \/ ncb'[i] # ncb[i]
  \/ s_deliv'[i] # s_deliv[i]
  \/ ctx' # ctx /\ ctx'.kind # "idle" /\ ctx'.id = i

\* C34: for every id the connect callback is called once and before any
\* message callback of that id, and once the disconnect callback of an id
\* has been called no callback is called for that id again.
C34_CallbackOrder ==
  /\ [](\A i \in Ids :
          /\ ncb[i].connect <= 1
          /\ ncb[i].disconnect <= 1
          /\ i \in Range(assigned) => ncb[i].connect = 1
          /\ s_deliv[i] # <<>> \/ ncb[i].disconnect > 0 => ncb[i].connect = 1
          /\ ctx.kind = "read_handler" /\ ctx.id = i
               => ncb[i].connect = 1 /\ ncb[i].disconnect = 0)
  /\ [][\A i \in Ids : ncb[i].disconnect > 0 => ~CallbackFor(i)]_vars

\* a connection has had its connect callback, a message callback and its
\* disconnect callback, and the server has gone on to another handler
C34_Witness ==
  \E i \in Ids :
    /\ ncb[i].disconnect = 1
    /\ s_deliv[i] # <<>>
    /\ obj[i] = "destroyed"
    /\ ctx.kind # "idle"
    /\ ctx.id # i

\* C35: the first frame put on the queue of an accepted connection, and the
\* first frame written to it, is the welcome frame; the frames the
\* application sends to the connection, those sent from the connection's
\* connect callback included, come after it.
C35_WelcomeFirst ==
  \A i \in Ids :
    /\ i \in Range(assigned) => enq[i] # <<>>
    /\ enq[i] # <<>> => Head(enq[i]) = first_message
    /\ wrote[i] # <<>> => Head(wrote[i]) = first_message
    /\ ctx.kind = "accept_handler" /\ ctx.connect /\ ctx.id = i /\ write_messages_[i] # <<>>
         => Head(write_messages_[i]) = net_message(first_message)

\* the connect callback of a connection has sent a frame to the connection
\* itself
C35_Witness ==
  /\ ctx.kind = "accept_handler"
  /\ ctx.connect
  /\ last.call.op = "send_to"
  /\ last.call.id = ctx.id
  /\ Len(enq[ctx.id]) = 2
  /\ enq[ctx.id][2] = last.call.body

\* C36: no two clients of the chat server have the same name.
C36_UniqueNames ==
  \A j, k \in 1 .. Len(clients_) : clients_[j].name = clients_[k].name => j = k

\* What does hold: the clients have different ids, and a #name request
\* never gives a client a name that another client has at that time.
UniqueIds ==
  \A j, k \in 1 .. Len(clients_) : clients_[j].id_ = clients_[k].id_ => j = k

NameChangeKeepsNamesApart ==
  [][Len(clients_') = Len(clients_) /\ C36_UniqueNames => C36_UniqueNames']_vars

\* the ids of the players in a list
PlayerSet(list) == {list[k].id_ : k \in 1 .. Len(list)}

\* the ids of the players marked as not in a game
MarkedWaiting(list) == {list[k].id_ : k \in {j \in 1 .. Len(list) : ~list[j].in_game}}

\* the ids of the players that have a game in the list of games
Playing(games) == UNION {{games[i][1], games[i][2]} : i \in 1 .. Len(games)}

\* two players have a game with each other
GameOf(games, a, b) == \E i \in 1 .. Len(games) : {games[i][1], games[i][2]} = {a, b}

\* handle_accept(id, true) runs in the step
Connects(id) == c4_call' # c4_call /\ c4_call' = [connect |-> TRUE, id |-> id]

\* handle_accept(id, false) runs in the step
Disconnects(id) == c4_call' # c4_call /\ c4_call' = [connect |-> FALSE, id |-> id]

\* C37: a client that connects while another client is not in a game gets
\* a game with such a client and both are marked in-game; a client that
\* connects while no such client exists is recorded as not in a game.
C37_PairedOrWaiting ==
  [][\A id \in PlayerIds :
       Connects(id)
         => IF PlayerSet(players_) \ Playing(games_) # {}
            THEN \E p \in PlayerSet(players_) \ Playing(games_) :
                   /\ GameOf(games_', p, id)
                   /\ {p, id} \cap MarkedWaiting(players_') = {}
            ELSE /\ id \in MarkedWaiting(players_')
                 /\ id \notin Playing(games_')]_vars

\* What does hold: a client that connects while another is marked as not
\* in a game gets a game with the first such client, and both are marked
\* in-game; otherwise the new client gets no game.
PairedWithMarkedWaiting ==
  [][\A id \in PlayerIds :
       Connects(id)
         => IF MarkedWaiting(players_) # {}
            THEN \E p \in MarkedWaiting(players_) :
                   /\ GameOf(games_', p, id)
                   /\ {p, id} \cap MarkedWaiting(players_') = {}
            ELSE /\ games_' = games_
                 /\ id \in PlayerSet(players_')]_vars

\* C38: when a client that is in a game disconnects, the client and its
\* game are removed, and its opponent is marked as not in a game, or has a
\* new game with a player that was marked as not in a game when there was
\* one; the opponent is not left marked in-game without a game.
C38_OpponentPutBack ==
  [][\A id \in PlayerIds :
       Disconnects(id) /\ id \in Playing(games_)
         => LET other == opponent(games_[first_game_of(games_, id)], id)
                others == MarkedWaiting(players_) \ {id, other}
            IN /\ id \notin PlayerSet(players_')
               /\ id \notin Playing(games_')
               /\ other \in PlayerSet(players_')
               /\ other \in Playing(games_') <=> other \notin MarkedWaiting(players_')
               /\ IF others = {}
                  THEN other \in MarkedWaiting(players_')
                  ELSE \E w \in others :
                         /\ GameOf(games_', w, other)
                         /\ w \notin MarkedWaiting(players_')]_vars

\* a player in a game has disconnected and its opponent has a new game
\* with a player that was waiting
C38_Witness ==
  /\ ~c4_call.connect
  /\ c4_call.id # NullPtr
  /\ Len(c4_out) = 4
  /\ c4_out[1].to \in Playing(games_)
  /\ c4_process = "running"

\* C39: when a client that is not in a game disconnects while other players
\* are registered, the handler reads no opponent that is missing, removes
\* that player only, and leaves the marks of the other players and the
\* games as they were.
C39_WaitingPlayerLeaves ==
  [][\A id \in PlayerIds :
       Disconnects(id) /\ id \notin Playing(games_) /\ PlayerSet(players_) # {id}
         => /\ c4_process' = "running"
            /\ players_' = Erase(players_, Position(players_, id))
            /\ games_' = games_]_vars

\* What does hold: a player that leaves while no other player is registered
\* is removed and that is all.
LastPlayerLeaves ==
  [][\A id \in PlayerIds :
       Disconnects(id) /\ PlayerSet(players_) = {id}
         => /\ c4_process' = c4_process
            /\ players_' = <<>>
            /\ games_' = games_]_vars
====
